---- MODULE Spec2Model ----
(***************************************************************************)
(* SpectraFilm: the film simulation engine (engine.ts), the density-space  *)
(* effects (dye-coupling.ts, halation.ts) and the three-pass orchestrator  *)
(* processImage (page.tsx).                                                *)
(*                                                                         *)
(* Numbers.  The program computes in IEEE doubles; TLA+ has integers only. *)
(* A real v is held as the integer v * U (fixed point, U = 2^13, so that   *)
(* the 15 halvings of [-4, 4] done by findMidpointShift are exact).  A     *)
(* quotient whose exact value matters is held as a fraction [n, d].  NaN,  *)
(* which JavaScript produces from an undefined array element, is the       *)
(* value NaN.                                                              *)
(***************************************************************************)
EXTENDS Integers, Sequences, FiniteSets, TLC

VARIABLES
    qx,        \* interpolate: argument x
    qpoints,   \* interpolate: argument points
    qres,      \* interpolate: <<>> before the call, <<returned value>> after
    profile,   \* the FilmProfile handed to the engine
    engine,    \* <<>> before construction, <<"threw">> when the constructor
               \* threw, <<"ok", calibration state>> when it returned
    lastCall,  \* the last per-pixel method call: <<>> or <<[op, args, result]>>
    pc,            \* processImage: the statement the run has reached
    options,       \* processImage: the user's settings for this run
    pixelData,     \* processImage: the decoded input, one <<r, g, b, a>> per pixel
    width,         \* processImage: the image width (height = pixels / width)
    locals,        \* processImage: the constants computed before pass 1
    pixelIdx,      \* processImage: the pixel the current loop is about to visit
    stats,         \* processImage: the pass-1 collections and accumulators
    derived,       \* processImage: <<>> or <<ranges and saturation factor>>
    linearBuffer,  \* processImage: the pass-2 buffer, one pixel per entry
    bloomedBuffer, \* processImage: what applyPyramidBloom returned
    outputBuffer,  \* processImage: the 8-bit RGBA output, one pixel per entry
    trace          \* history: the stages executed so far, in order

interpVars == <<qx, qpoints, qres>>
engineVars == <<profile, engine, lastCall>>
pipeVars == <<pc, options, pixelData, width, locals, pixelIdx, stats, derived,
              linearBuffer, bloomedBuffer, outputBuffer, trace>>
vars == <<qx, qpoints, qres, profile, engine, lastCall, pc, options, pixelData,
          width, locals, pixelIdx, stats, derived, linearBuffer, bloomedBuffer,
          outputBuffer, trace>>

-----------------------------------------------------------------------------
(* Arithmetic helpers *)

U == 2^13

\* NaN is a reserved integer far outside every value the model computes
NaN == 0 - 2^30

Min2(a, b) == IF a <= b THEN a ELSE b
Max2(a, b) == IF a >= b THEN a ELSE b
Abs(a) == IF a < 0 THEN -a ELSE a

\* a fraction n/d, d > 0 unless the code divided by zero
Q(n, d) == [n |-> n, d |-> d]

\* floor(n / d) for d > 0
FloorDiv(n, d) == n \div d

-----------------------------------------------------------------------------
(* engine.ts: interpolate *)

\* a slip in the loop's guard: x <= points[i+1].x where the code has <
InterpolateLoopIndexInclusive(x, points) ==
    LET hits == {i \in 1..(Len(points) - 1) :
                    x >= points[i].x /\ x <= points[i + 1].x}
    IN  IF hits = {} THEN 0 ELSE CHOOSE i \in hits : \A j \in hits : i <= j

\* the index the scan loop of interpolate stops at (1-based), 0 when the
\* loop runs to its end without returning
InterpolateLoopIndex(x, points) ==
    LET hits == {i \in 1..(Len(points) - 1) :
                    x >= points[i].x /\ x < points[i + 1].x}
    IN  IF hits = {} THEN 0 ELSE CHOOSE i \in hits : \A j \in hits : i <= j

\* interpolate(x, points) as an exact fraction; d = 0 records a division by
\* zero (t = (x - x_i) / 0)
InterpolateQ(x, points) ==
    IF Len(points) = 0 THEN Q(0, 1)
    ELSE IF x <= points[1].x THEN Q(points[1].y, 1)
    ELSE IF x >= points[Len(points)].x THEN Q(points[Len(points)].y, 1)
    ELSE LET i == InterpolateLoopIndex(x, points)
         IN  IF i = 0 THEN Q(points[Len(points)].y, 1)
             ELSE LET dx == points[i + 1].x - points[i].x
                      dy == points[i + 1].y - points[i].y
                  IN  IF dx = 0 THEN Q(points[i].y, 0)
                      ELSE Q(points[i].y * dx + (x - points[i].x) * dy, dx)

\* interpolate(x, points) in fixed point (rounded towards minus infinity)
Interpolate(x, points) ==
    LET q == InterpolateQ(x, points)
    IN  IF q.d = 0 THEN NaN ELSE FloorDiv(q.n, q.d)

-----------------------------------------------------------------------------
(* Math.pow, Math.log10 in fixed point *)

\* n/d as a fixed-point value, rounded to nearest (n >= 0, d > 0)
Fx(n, d) == (2 * n * U + d) \div (2 * d)

\* a * b and a / b of fixed-point values: floor(a * b / U) and
\* floor(a * U / b), computed from the high and low parts of the operands so
\* that no intermediate product leaves the integer range
Mul(a, b) ==
    (a \div U) * b + (a % U) * (b \div U) + ((a % U) * (b % U)) \div U
Div(a, b) ==
    IF b > 0 THEN (a \div b) * U + ((a % b) * U) \div b
    ELSE 0 - ((a \div (0 - b)) * U + ((a % (0 - b)) * U) \div (0 - b))

\* U * 10^(k/16) for k = 0..16: one decade of Math.pow(10, .)
PowTable ==
    <<8192, 9460, 10924, 12615, 14568, 16822, 19426, 22433, 25905,
      29915, 34545, 39892, 46067, 53197, 61431, 70940, 81920>>

RECURSIVE Pow10Int(_)
Pow10Int(k) == IF k <= 0 THEN 1 ELSE 10 * Pow10Int(k - 1)

\* Math.pow(10, e): the decade from the integer part of e, the mantissa by
\* linear interpolation in PowTable
Pow10(e) ==
    LET k    == e \div U
        f    == e - k * U
        idx  == (f * 16) \div U
        rem  == (f * 16) % U
        mant == PowTable[idx + 1]
                  + ((PowTable[idx + 2] - PowTable[idx + 1]) * rem) \div U
    IN  IF k >= 0 THEN mant * Pow10Int(k) ELSE mant \div Pow10Int(0 - k)

\* v scaled by a power of ten into [U, 10U), with the power
RECURSIVE Log10Norm(_, _)
Log10Norm(v, k) ==
    IF v < U THEN Log10Norm(v * 10, k - 1)
    ELSE IF v >= 10 * U THEN Log10Norm(v \div 10, k + 1)
    ELSE <<v, k>>

\* Math.log10(v) for v > 0: the inverse of Pow10 on the same table
Log10(v) ==
    LET nk   == Log10Norm(v, 0)
        m    == nk[1]
        idx  == CHOOSE i \in 1..16 : PowTable[i] <= m /\ m < PowTable[i + 1]
        frac == ((m - PowTable[idx]) * U) \div (PowTable[idx + 1] - PowTable[idx])
    IN  nk[2] * U + ((idx - 1) * U + frac) \div 16

\* Math.pow(x, p/q) for x >= 0 (0 for x = 0)
PowFrac(x, p, q) == IF x <= 0 THEN 0 ELSE Pow10((Log10(x) * p) \div q)

\* log10(2), for Math.pow(2, ev) = 10^(ev * log10 2)
Log10Of2 == Fx(30103, 100000)

-----------------------------------------------------------------------------
(* types.ts: FilmProfile.  An optional field is <<>> when absent and <<v>> *)
(* when present; an optional string is "" when absent.                     *)

Vec3(a, b, c) == <<a, b, c>>

IdentityMatrix3x3 == <<<<U, 0, 0>>, <<0, U, 0>>, <<0, 0, U>>>>

Pt(x, y) == [x |-> x, y |-> y]

\* String.prototype.toLowerCase on the strings the model uses
ToLowerCase(str) ==
    CASE str = "C-41"  -> "c-41"
      [] str = "BW"    -> "bw"
      [] str = "E-6"   -> "e-6"
      [] str = "ECN-2" -> "ecn-2"
      [] str = "Fuji_Velvia_50" -> "fuji_velvia_50"
      [] OTHER -> str

\* String.prototype.includes for the substrings inferFilmType looks for, on
\* the (lower-cased) identifiers the model uses
Includes(id, sub) ==
    CASE sub = "provia"     -> id \in {"fuji_provia_100f", "provia_hp5_test"}
      [] sub = "velvia"     -> id \in {"fuji_velvia_50", "velvia_bw"}
      [] sub = "ektachrome" -> id \in {"kodak_ektachrome_e100"}
      [] sub = "tri-x"      -> id \in {"kodak_tri-x_400"}
      [] sub = "hp5"        -> id \in {"ilford_hp5_plus", "provia_hp5_test"}
      [] sub = "tmax"       -> id \in {"kodak_tmax_100"}
      [] OTHER -> FALSE

-----------------------------------------------------------------------------
(* engine.ts: SimulationEngine *)

\* multiplyMatrixVector(m, v): row i of m dotted with v
MultiplyMatrixVector(m, v) ==
    [i \in 1..3 |-> Mul(m[i][1], v[1]) + Mul(m[i][2], v[2]) + Mul(m[i][3], v[3])]

\* getMinY(pts) on a non-empty curve
GetMinY(pts) ==
    LET ys == {pts[i].y : i \in 1..Len(pts)}
    IN  CHOOSE y \in ys : \A z \in ys : y <= z

\* the loop of findMidpointShift: i halvings left, current [low, high]
RECURSIVE Bisect(_, _, _, _, _, _, _)
Bisect(points, target, dMinVal, slope, low, high, left) ==
    IF left = 0 THEN (low + high) \div 2
    ELSE LET mid == (low + high) \div 2
             analyticalDensity == Interpolate(mid, points) - dMinVal
         IN  IF analyticalDensity < target
             THEN IF slope > 0
                  THEN Bisect(points, target, dMinVal, slope, mid, high, left - 1)
                  ELSE Bisect(points, target, dMinVal, slope, low, mid, left - 1)
             ELSE IF slope > 0
                  THEN Bisect(points, target, dMinVal, slope, low, mid, left - 1)
                  ELSE Bisect(points, target, dMinVal, slope, mid, high, left - 1)

BisectIterations == 15

\* a slip in findMidpointShift: the search always moves as on a rising curve
FindMidpointShiftRisingOnly(points, target) ==
    Bisect(points, target, GetMinY(points), 1, (0 - 4) * U, 4 * U,
           BisectIterations)

\* findMidpointShift(points, target) on a non-empty curve
FindMidpointShift(points, target) ==
    Bisect(points, target, GetMinY(points),
           points[Len(points)].y - points[1].y,
           (0 - 4) * U, 4 * U, BisectIterations)

\* findMidpointShift reads points[points.length-1].y: on an empty curve that
\* is a property access on undefined, a TypeError
FindMidpointShiftThrows(points) == Len(points) = 0

\* prof.physics.rgb_to_raw_matrix || identity
SensitivityMatrixOf(prof) ==
    IF prof.physics.rgb_to_raw_matrix = <<>>
    THEN IdentityMatrix3x3
    ELSE prof.physics.rgb_to_raw_matrix[1]

\* colorConstants.wavelengths (nm): the sample grid of the spectral scan
Wavelengths == <<440, 460, 540, 560, 630, 650>>

\* Math.exp(-0.5 * ((lambda - centre) / sigma)^2) with sigma = 20, on the
\* distances the grid produces
GaussianWeight(lambda, centre) ==
    LET dist == Abs(lambda - centre)
    IN  CASE dist = 0   -> U
          [] dist = 10  -> 7229
          [] dist = 20  -> 4969
          [] dist = 40  -> 1109
          [] dist = 60  -> 91
          [] dist = 80  -> 3
          [] OTHER      -> 0

\* x || 1 on a number
OrOne(x) == IF x = 0 THEN U ELSE x

\* expose: rawR = rgb[0]*m[0][0] + rgb[1]*m[1][0] + rgb[2]*m[2][0], ...
RawSensor(m, rgb) ==
    [i \in 1..3 |-> Mul(rgb[1], m[1][i]) + Mul(rgb[2], m[2][i]) + Mul(rgb[3], m[3][i])]

\* raw * normalizationScale as an exact fraction (the real number n/d)
NormalizedRaw(e, rgb) ==
    LET raw == RawSensor(e.sensitivityMatrix, rgb)
    IN  [i \in 1..3 |-> Q(raw[i] * e.normalizationScale[i].n,
                          e.normalizationScale[i].d * U)]

LogEpsilon6 == (0 - 6) * U

\* expose(rgb, ev).  log10(max(1e-6, raw * scale * 10^off * 2^ev)) is
\* computed as max(-6, log10 raw + log10 scale + off + ev * log10 2) when
\* raw * scale > 0 and is -6 otherwise: the same real number, and 1e-6 is
\* below the fixed-point resolution.
Expose(e, rgb, exposureCompEv) ==
    LET raw == RawSensor(e.sensitivityMatrix, rgb)
        ch(i) ==
            LET sc == e.normalizationScale[i]
            IN  IF raw[i] = 0 \/ ((raw[i] > 0) # (sc.d > 0)) THEN LogEpsilon6
                ELSE Max2(LogEpsilon6,
                          Log10(Abs(raw[i])) + Log10(sc.n) - Log10(Abs(sc.d))
                            + e.sensitivityOffsets[i]
                            + Mul(exposureCompEv, Log10Of2))
    IN  Vec3(ch(1), ch(2), ch(3))

\* develop(logExp)
Develop(e, logExp) ==
    LET c == Interpolate(logExp[1], e.profile.sensitometry.red) - e.dMin[1]
        m == Interpolate(logExp[2], e.profile.sensitometry.green) - e.dMin[2]
        y == Interpolate(logExp[3], e.profile.sensitometry.blue) - e.dMin[3]
    IN  Vec3(Max2(0, c), Max2(0, m), Max2(0, y))

\* the dye row read at a wavelength: [dC, dM, dY, dBase]
DyeRow(dye) ==
    IF Len(dye) >= 5 THEN <<dye[2], dye[3], dye[4], dye[5]>>
    ELSE IF Len(dye) >= 4 THEN <<dye[2], dye[3], dye[4], 0>>
    ELSE IF Len(dye) = 2 THEN <<dye[2], dye[2], dye[2], 0>>
    ELSE <<0, 0, 0, 0>>

\* scan reads dyeDensity[i] for every wavelength index: with a non-empty
\* table shorter than the grid, dye is undefined and dye.length a TypeError
ScanThrows(e) ==
    e.dyeDensity # <<>> /\ Len(e.dyeDensity) < Len(Wavelengths)

\* the accumulation loop of scan over wavelengths 1..n:
\* <<R_trans, G_trans, B_trans, N_r, N_g, N_b>>
RECURSIVE ScanSum(_, _, _)
ScanSum(e, d, n) ==
    IF n = 0 THEN <<0, 0, 0, 0, 0, 0>>
    ELSE LET acc    == ScanSum(e, d, n - 1)
             lambda == Wavelengths[n]
             row    == DyeRow(e.dyeDensity[n])
             totalDensity == Mul(d[1], row[1]) + Mul(d[2], row[2])
                               + Mul(d[3], row[3]) + row[4]
             transmittance == Pow10(0 - totalDensity)
             sB == GaussianWeight(lambda, 440)
             sG == GaussianWeight(lambda, 540)
             sR == GaussianWeight(lambda, 650)
         IN  <<acc[1] + Mul(transmittance, sR), acc[2] + Mul(transmittance, sG),
               acc[3] + Mul(transmittance, sB),
               acc[4] + sR, acc[5] + sG, acc[6] + sB>>

\* a slip in the Beer-Lambert branch: red is read from the magenta density
\* and green from the cyan density
ScanSwapsChannels(e, densityCMY) ==
    IF Len(e.dyeDensity) = 0
    THEN Vec3(Pow10(0 - densityCMY[2]), Pow10(0 - densityCMY[1]),
              Pow10(0 - densityCMY[3]))
    ELSE LET t == ScanSum(e, densityCMY, Len(Wavelengths))
         IN  Vec3(Div(t[1], OrOne(t[4])), Div(t[2], OrOne(t[5])),
                  Div(t[3], OrOne(t[6])))

\* scan(densityCMY), when it does not throw
Scan(e, densityCMY) ==
    IF Len(e.dyeDensity) = 0
    THEN Vec3(Pow10(0 - densityCMY[1]), Pow10(0 - densityCMY[2]),
              Pow10(0 - densityCMY[3]))
    ELSE LET t == ScanSum(e, densityCMY, Len(Wavelengths))
         IN  Vec3(Div(t[1], OrOne(t[4])), Div(t[2], OrOne(t[5])),
                  Div(t[3], OrOne(t[6])))

LogEpsilon9 == 9 * U

\* one channel of invert: -log10(max(1e-9, s / max(1e-9, b))) * gamma,
\* computed as min(9, log10 b - log10 s) for s > 0 and 9 otherwise (1e-9 is
\* below the fixed-point resolution)
InvertChannel(s, b, gamma) ==
    IF s <= 0 THEN Mul(LogEpsilon9, gamma)
    ELSE Mul(Min2(LogEpsilon9, Log10(Max2(1, b)) - Log10(s)), gamma)

\* invert(scannedRGB, gamma)
Invert(e, scannedRGB, gamma) ==
    Vec3(InvertChannel(scannedRGB[1], e.baseResponse[1], gamma),
         InvertChannel(scannedRGB[2], e.baseResponse[2], gamma),
         InvertChannel(scannedRGB[3], e.baseResponse[3], gamma))

\* a slip in processPixel: the exposure compensation is dropped
ProcessPixelDropsCompensation(e, rgb, exposureCompEv) ==
    Scan(e, Develop(e, Expose(e, rgb, 0)))

\* processPixel(rgb, ev)
ProcessPixel(e, rgb, exposureCompEv) ==
    Scan(e, Develop(e, Expose(e, rgb, exposureCompEv)))

\* inferFilmType()
InferFilmType(prof) ==
    IF prof.meta.film_type # "" THEN prof.meta.film_type
    ELSE LET process == ToLowerCase(prof.meta.process)
             id      == ToLowerCase(prof.id)
         IN  IF process = "e-6" \/ Includes(id, "provia") \/ Includes(id, "velvia")
                  \/ Includes(id, "ektachrome") THEN "reversal"
             ELSE IF process = "bw" \/ Includes(id, "tri-x") \/ Includes(id, "hp5")
                  \/ Includes(id, "tmax") THEN "bw_negative"
             ELSE "negative"

MIN_VALID_BASE == Fx(1, 100)

DefaultBase(filmType) ==
    IF filmType = "reversal"
    THEN Vec3(Fx(9, 10), Fx(9, 10), Fx(9, 10))
    ELSE Vec3(Fx(4, 10), Fx(15, 100), Fx(8, 100))

\* the floor test dropped: the computed response is always kept
SelectBaseNoFloor(computedBase, filmType) ==
    computedBase

\* a slip in the constructor: the default base is always substituted
SelectBaseAlwaysDefault(computedBase, filmType) ==
    DefaultBase(filmType)

\* the constructor's choice between the computed base and the default
\* (Math.max(1e-6, v) changes no value that passed the 0.01 floor)
SelectBase(computedBase, filmType) ==
    IF computedBase[1] < MIN_VALID_BASE \/ computedBase[2] < MIN_VALID_BASE
         \/ computedBase[3] < MIN_VALID_BASE
    THEN DefaultBase(filmType)
    ELSE Vec3(Max2(0, computedBase[1]), Max2(0, computedBase[2]),
              Max2(0, computedBase[3]))

\* the calibration state before the base response is computed
EngineBeforeBase(prof) ==
    LET targetMid == U
        midR == FindMidpointShift(prof.sensitometry.red, targetMid)
        midG == FindMidpointShift(prof.sensitometry.green, targetMid)
        midB == FindMidpointShift(prof.sensitometry.blue, targetMid)
        m == SensitivityMatrixOf(prof)
        rawWhite == MultiplyMatrixVector(m, Vec3(U, U, U))
    IN  [profile            |-> prof,
         sensitivityMatrix  |-> m,
         dyeDensity         |-> prof.physics.dye_density,
         sensitivityOffsets |-> Vec3(0, midG - midR, midB - midR),
         normalizationScale |-> Vec3(Q(U, OrOne(rawWhite[1])),
                                     Q(U, OrOne(rawWhite[2])),
                                     Q(U, OrOne(rawWhite[3]))),
         dMin               |-> Vec3(GetMinY(prof.sensitometry.red),
                                     GetMinY(prof.sensitometry.green),
                                     GetMinY(prof.sensitometry.blue)),
         filmType           |-> InferFilmType(prof),
         baseResponse       |-> Vec3(0, 0, 0)]

\* scan(develop(expose([0,0,0], -20))), the zero-exposure response
ComputedBase(e) ==
    Scan(e, Develop(e, Expose(e, Vec3(0, 0, 0), (0 - 20) * U)))

\* new SimulationEngine(prof) throws a TypeError
ConstructorThrows(prof) ==
    \/ FindMidpointShiftThrows(prof.sensitometry.red)
    \/ FindMidpointShiftThrows(prof.sensitometry.green)
    \/ FindMidpointShiftThrows(prof.sensitometry.blue)
    \/ (prof.physics.dye_density # <<>>
          /\ Len(prof.physics.dye_density) < Len(Wavelengths))

\* new SimulationEngine(prof), when it returns
NewEngine(prof) ==
    LET e == EngineBeforeBase(prof)
    IN  [e EXCEPT !.baseResponse = SelectBase(ComputedBase(e), e.filmType)]

-----------------------------------------------------------------------------
(* Film profiles the specifications draw from *)

\* a colour-negative H&D curve: density rises with exposure
NegativeCurve ==
    <<Pt((0 - 3) * U, Fx(2, 10)), Pt((0 - 2) * U, Fx(3, 10)),
      Pt(0, Fx(18, 10)), Pt(U, Fx(24, 10))>>

\* the same layer, half a decade slower
SlowNegativeCurve ==
    <<Pt((0 - 3) * U, Fx(2, 10)), Pt(((0 - 3) * U) \div 2, Fx(3, 10)),
      Pt(U \div 2, Fx(18, 10)), Pt((3 * U) \div 2, Fx(24, 10))>>

\* a reversal H&D curve: density falls with exposure
ReversalCurve ==
    <<Pt((0 - 3) * U, 3 * U), Pt((0 - 1) * U, 2 * U),
      Pt(0, Fx(3, 10)), Pt(U, Fx(1, 10))>>

\* a reversal curve of little contrast: 0.15 density over four decades
LowContrastReversalCurve ==
    <<Pt((0 - 3) * U, Fx(35, 100)), Pt(U, Fx(2, 10))>>

\* a single control point
FlatCurve == <<Pt(0, Fx(5, 10))>>

EmptyCurve == <<>>

Sensitometry(r, g, b) == [red |-> r, green |-> g, blue |-> b]

SensitometryChoices ==
    {Sensitometry(NegativeCurve, NegativeCurve, NegativeCurve),
     Sensitometry(NegativeCurve, SlowNegativeCurve, NegativeCurve),
     Sensitometry(ReversalCurve, ReversalCurve, ReversalCurve),
     Sensitometry(FlatCurve, NegativeCurve, NegativeCurve),
     Sensitometry(NegativeCurve, EmptyCurve, NegativeCurve),
     Sensitometry(EmptyCurve, EmptyCurve, EmptyCurve)}

\* rgb_to_raw_matrix: absent, symmetric, not symmetric, with a zero row
MatrixChoices ==
    {<<>>,
     <<<<<<Fx(8, 10), Fx(1, 10), Fx(1, 10)>>,
         <<Fx(1, 10), Fx(8, 10), Fx(1, 10)>>,
         <<Fx(1, 10), Fx(1, 10), Fx(8, 10)>>>>>>,
     <<<<<<U, U \div 2, 0>>, <<0, U, 0>>, <<0, 0, U>>>>>>,
     <<<<<<U, 0, 0>>, <<0, 0, 0>>, <<0, 0, U>>>>>>}

\* dye_density rows [wavelength, C, M, Y, base]: one row per wavelength of
\* the grid, with an orange-mask-like base density in the blue and green
MaskedDyeTable ==
    <<<<440, Fx(1, 10), Fx(2, 10), U,          Fx(9, 10)>>,
      <<460, Fx(1, 10), Fx(3, 10), Fx(9, 10),  Fx(8, 10)>>,
      <<540, Fx(1, 10), U,         Fx(1, 10),  Fx(5, 10)>>,
      <<560, Fx(2, 10), Fx(9, 10), 0,          Fx(4, 10)>>,
      <<630, Fx(9, 10), Fx(1, 10), 0,          Fx(2, 10)>>,
      <<650, U,         0,         0,          Fx(2, 10)>>>>

\* a table whose base density is 3 around 440 nm only: the blue channel of
\* the zero-exposure response falls below 0.01, red and green do not
BlueOpaqueDyeTable ==
    <<<<440, U, 0, 0, 3 * U>>, <<460, U, 0, 0, 3 * U>>,
      <<540, 0, U, 0, 0>>, <<560, 0, U, 0, 0>>,
      <<630, 0, 0, U, 0>>, <<650, 0, 0, U, 0>>>>

\* a table with fewer rows than the wavelength grid
ShortDyeTable == <<<<440, U, 0, 0, 0>>, <<460, U, 0, 0, 0>>>>

DyeDensityChoices == {<<>>, MaskedDyeTable, BlueOpaqueDyeTable, ShortDyeTable}

ProfileIds ==
    {"kodak_portra_400", "kodak_portra", "fuji_provia_100f", "Fuji_Velvia_50",
     "kodak_tri-x_400", "velvia_bw", "provia_hp5_test"}

FilmTypes == {"negative", "reversal", "bw_negative"}
Processes == {"", "C-41", "BW", "E-6", "ECN-2"}

\* dye_coupling_matrix: absent, nine elements, or malformed
PortraLikeMatrix ==
    <<U, Fx(5, 100), Fx(2, 100), Fx(3, 100), U, Fx(4, 100),
      Fx(1, 100), Fx(2, 100), U>>
ProfileIdentityMatrix == <<U, 0, 0, 0, U, 0, 0, 0, U>>
FourElementMatrix == <<U, 0, 0, U>>

MakeProfile(id, filmType, process, matrix, dye, coupling, sens, tone) ==
    [id |-> id,
     meta |-> [film_type |-> filmType, process |-> process, iso |-> 400],
     physics |-> [rgb_to_raw_matrix |-> matrix, dye_density |-> dye,
                  dye_coupling_matrix |-> coupling],
     sensitometry |-> sens,
     rendering |-> [tone_mapping |-> tone, white_point |-> U]]

\* profiles varying what film-type inference reads
MetaProfiles ==
    {MakeProfile(id, ft, pr, <<>>, <<>>, <<>>,
                 Sensitometry(NegativeCurve, NegativeCurve, NegativeCurve), "")
       : id \in ProfileIds, ft \in FilmTypes \cup {""}, pr \in Processes}

\* profiles varying what calibration reads
PhysicsProfiles ==
    {MakeProfile("kodak_portra_400", ft, "C-41", m, dye, <<>>, sens, "")
       : ft \in FilmTypes, m \in MatrixChoices, dye \in DyeDensityChoices,
         sens \in SensitometryChoices}

EngineProfiles == MetaProfiles \cup PhysicsProfiles

-----------------------------------------------------------------------------
(* JavaScript arithmetic on values that may be NaN or undefined *)

AddN(a, b) == IF a = NaN \/ b = NaN THEN NaN ELSE a + b
SubN(a, b) == IF a = NaN \/ b = NaN THEN NaN ELSE a - b
MulN(a, b) == IF a = NaN \/ b = NaN THEN NaN ELSE Mul(a, b)

\* Math.max, Math.min: NaN when an argument is NaN
MathMax(a, b) == IF a = NaN \/ b = NaN THEN NaN ELSE Max2(a, b)
MathMin(a, b) == IF a = NaN \/ b = NaN THEN NaN ELSE Min2(a, b)

\* arr[k] for a 0-based index k: undefined outside the array, which is NaN
\* as soon as it enters arithmetic
ArrayAt(arr, k) == IF k >= 0 /\ k < Len(arr) THEN arr[k + 1] ELSE NaN

\* x || fallback on a number: 0, NaN and undefined are falsy
OrElse(x, fallback) == IF x = NaN \/ x = 0 THEN fallback ELSE x

\* Math.max(0, Math.min(1, v))
Clamp01(v) == MathMax(0, MathMin(U, v))

\* Rec.709 luminance 0.2126 r + 0.7152 g + 0.0722 b
Luminance709(r, g, b) ==
    AddN(AddN(MulN(Fx(2126, 10000), r), MulN(Fx(7152, 10000), g)),
         MulN(Fx(722, 10000), b))

-----------------------------------------------------------------------------
(* dye-coupling.ts.  An array is held with its identity (ref), because the *)
(* orchestrator compares matrices with !==.                                *)

IDENTITY_MATRIX ==
    [ref |-> "IDENTITY_MATRIX", elems |-> <<U, 0, 0, 0, U, 0, 0, 0, U>>]

PresetNames ==
    {"kodak_portra", "fuji_pro_400h", "kodachrome_64", "kodak_vision3"}

DYE_COUPLING_PRESETS(name) ==
    CASE name = "kodak_portra" ->
           <<U, Fx(5, 100), Fx(2, 100), Fx(3, 100), U, Fx(4, 100),
             Fx(1, 100), Fx(2, 100), U>>
      [] name = "fuji_pro_400h" ->
           <<U, Fx(4, 100), Fx(2, 100), Fx(5, 100), U, Fx(6, 100),
             Fx(2, 100), Fx(3, 100), U>>
      [] name = "kodachrome_64" ->
           <<U, Fx(8, 100), Fx(5, 100), Fx(7, 100), U, Fx(9, 100),
             Fx(4, 100), Fx(6, 100), U>>
      [] name = "kodak_vision3" ->
           <<U, Fx(3, 100), Fx(1, 100), Fx(2, 100), U, Fx(3, 100),
             Fx(1, 100), Fx(1, 100), U>>

\* getDyeCouplingMatrix(presetName): DYE_COUPLING_PRESETS[name] || IDENTITY
GetDyeCouplingMatrix(presetName) ==
    IF presetName \in PresetNames
    THEN [ref |-> presetName, elems |-> DYE_COUPLING_PRESETS(presetName)]
    ELSE IDENTITY_MATRIX

\* a slip in the indices: every coefficient is read one element too far
ApplyDyeCouplingOffByOne(densities, matrix) ==
    LET row(k) ==
          AddN(AddN(MulN(ArrayAt(matrix, k + 1), densities[1]),
                    MulN(ArrayAt(matrix, k + 2), densities[2])),
               MulN(ArrayAt(matrix, k + 3), densities[3]))
    IN  Vec3(row(0), row(3), row(6))

\* applyDyeCouplingToDensity(densities, matrix): no length check; a missing
\* matrix element is undefined and its row NaN
ApplyDyeCouplingToDensity(densities, matrix) ==
    LET row(k) ==
          AddN(AddN(MulN(ArrayAt(matrix, k), densities[1]),
                    MulN(ArrayAt(matrix, k + 1), densities[2])),
               MulN(ArrayAt(matrix, k + 2), densities[3]))
    IN  Vec3(row(0), row(3), row(6))

-----------------------------------------------------------------------------
(* halation.ts *)

DefaultHalationThreshold == Fx(6, 10)

\* applyRedHalation(r, g, b, opt), opt = [strength, radius, threshold] with
\* threshold <<>> when not given
ApplyRedHalation(r, g, b, opt) ==
    LET threshold == IF opt.threshold = <<>> THEN DefaultHalationThreshold
                     ELSE opt.threshold[1]
        mean == IF r = NaN \/ g = NaN \/ b = NaN THEN NaN ELSE (r + g + b) \div 3
        over == MathMax(0, SubN(mean, threshold))
        isHighlight == IF over = NaN THEN NaN ELSE Div(over, U - threshold)
    IN  IF isHighlight # NaN /\ isHighlight <= 0 THEN Vec3(r, g, b)
        ELSE LET halationAmount == MulN(MulN(isHighlight, opt.strength), Fx(1, 10))
             IN  Vec3(MathMin(U, AddN(r, halationAmount)), g, b)

-----------------------------------------------------------------------------
(* bloom.ts.  A buffer is a sequence of pixels <<r, g, b, a>>; a pyramid    *)
(* level is [data, w, h].                                                   *)

RECURSIVE SumChannel(_, _, _)
SumChannel(data, idxs, c) ==
    IF idxs = {} THEN 0
    ELSE LET k == CHOOSE j \in idxs : TRUE
         IN  data[k][c] + SumChannel(data, idxs \ {k}, c)

\* one pass of boxBlur: the mean over the neighbours inside the image along
\* one axis; alpha is copied
BlurPass(data, w, h, radius, horizontal) ==
    IF Len(data) = 0 THEN <<>>
    ELSE [k \in 1..Len(data) |->
            LET x == (k - 1) % w
                y == (k - 1) \div w
                nb == IF horizontal
                      THEN {y * w + nx + 1 :
                              nx \in {n \in (x - radius)..(x + radius) :
                                        n >= 0 /\ n < w}}
                      ELSE {ny * w + x + 1 :
                              ny \in {n \in (y - radius)..(y + radius) :
                                        n >= 0 /\ n < h}}
                count == Cardinality(nb)
            IN  <<SumChannel(data, nb, 1) \div count,
                  SumChannel(data, nb, 2) \div count,
                  SumChannel(data, nb, 3) \div count,
                  data[k][4]>>]

\* boxBlur(data, width, height, radius)
BoxBlur(data, w, h, radius) ==
    IF radius < 1 THEN data
    ELSE BlurPass(BlurPass(data, w, h, radius, TRUE), w, h, radius, FALSE)

\* downsample(data, width, height): point sampling at even coordinates
Downsample(data, w, h) ==
    LET nw == w \div 2
        nh == h \div 2
    IN  [data |-> IF nw * nh = 0 THEN <<>>
                  ELSE [k \in 1..(nw * nh) |->
                          LET x == (k - 1) % nw
                              y == (k - 1) \div nw
                          IN  data[(y * 2 * w + x * 2) + 1]],
         w |-> nw, h |-> nh]

DefaultBloomWeights == <<Fx(1, 10), Fx(2, 10), Fx(4, 10), Fx(8, 10), U, U>>

\* step 1 of applyPyramidBloom for one pixel
ExtractHighlight(px, threshold) ==
    LET lum == Luminance709(px[1], px[2], px[3])
    IN  IF lum # NaN /\ lum > threshold
        THEN LET boost == Div(lum - threshold, U - threshold)
             IN  <<Mul(px[1], boost), Mul(px[2], boost), Mul(px[3], boost), U>>
        ELSE <<0, 0, 0, 0>>

\* step 2 of applyPyramidBloom from level l (0-based): blur the current
\* level, keep it, downsample for the next
RECURSIVE BuildPyramid(_, _, _, _)
BuildPyramid(current, l, radius, nLevels) ==
    IF l >= nLevels THEN <<>>
    ELSE LET blurRadius == Max2(1, (radius * (l + 1) + U \div 2) \div U)
             level == [data |-> BoxBlur(current.data, current.w, current.h,
                                        blurRadius),
                       w |-> current.w, h |-> current.h]
             next == IF l < nLevels - 1
                     THEN Downsample(current.data, current.w, current.h)
                     ELSE current
         IN  <<level>> \o BuildPyramid(next, l + 1, radius, nLevels)

\* the bilinear read of channel c of a level at full-resolution (x, y); an
\* index outside the level's buffer reads undefined
BilinearSample(level, x, y, w, h, c) ==
    LET x0 == (x * level.w) \div w
        x1 == Min2(level.w - 1, x0 + 1)
        dx == Fx((x * level.w) % w, w)
        y0 == (y * level.h) \div h
        y1 == Min2(level.h - 1, y0 + 1)
        dy == Fx((y * level.h) % h, h)
        rd(i) == IF i >= 0 /\ i < Len(level.data) THEN level.data[i + 1][c]
                 ELSE NaN
        w00 == Mul(U - dx, U - dy)
        w10 == Mul(dx, U - dy)
        w01 == Mul(U - dx, dy)
        w11 == Mul(dx, dy)
    IN  AddN(AddN(MulN(rd(y0 * level.w + x0), w00),
                  MulN(rd(y0 * level.w + x1), w10)),
             AddN(MulN(rd(y1 * level.w + x0), w01),
                  MulN(rd(y1 * level.w + x1), w11)))

\* step 3 of applyPyramidBloom for one channel of one pixel: levels l..last
\* added onto acc
RECURSIVE CompositeLevels(_, _, _, _, _, _, _, _, _, _)
CompositeLevels(acc, levels, weights, strength, x, y, w, h, c, l) ==
    IF l > Len(levels) THEN acc
    ELSE CompositeLevels(
             AddN(acc, MulN(BilinearSample(levels[l], x, y, w, h, c),
                            Mul(weights[l], strength))),
             levels, weights, strength, x, y, w, h, c, l + 1)

\* a slip in the early return: the extracted highlights are handed back
ApplyPyramidBloomReturnsHighlights(linearData, w, h, opt) ==
    [k \in 1..Len(linearData) |-> ExtractHighlight(linearData[k], opt.threshold)]

\* applyPyramidBloom(linearData, width, height, opt), opt = [strength,
\* threshold, radius, weights] with weights <<>> when not given
ApplyPyramidBloom(linearData, w, h, opt) ==
    IF opt.strength <= 0 THEN linearData
    ELSE LET weights == IF opt.weights = <<>> THEN DefaultBloomWeights
                        ELSE opt.weights[1]
             highlightData ==
                 [k \in 1..Len(linearData) |->
                    ExtractHighlight(linearData[k], opt.threshold)]
             levels == BuildPyramid([data |-> highlightData, w |-> w, h |-> h],
                                    0, opt.radius, Len(weights))
         IN  [k \in 1..Len(linearData) |->
                LET x == (k - 1) % w
                    y == (k - 1) \div w
                    ch(c) == CompositeLevels(linearData[k][c], levels, weights,
                                             opt.strength, x, y, w, h, c, 1)
                IN  <<ch(1), ch(2), ch(3), linearData[k][4]>>]

-----------------------------------------------------------------------------
(* tonemapping.ts *)

\* Math.pow(v, 1 / 2.2) for v in [0, 1]
GammaEncode(v) == IF v = NaN THEN NaN ELSE PowFrac(v, 10, 22)

\* simpleToneMapping(linear), acesLinearToneMapping(linear)
SimpleToneMapping(linear) == GammaEncode(Clamp01(linear))

AcesSaturates == 8 * U

\* acesToneMapping(linear).  x(2.51x + 0.03) / (x(2.43x + 0.59) + 0.14) is
\* above 1 for every x >= 7.3, where the clamp returns 1; below, numerator
\* and denominator are divided by 256 before the quotient is taken, to keep
\* the fixed-point quotient in range
AcesToneMapping(linear) ==
    LET x == MathMax(linear, 0)
    IN  IF x = NaN THEN NaN
        ELSE IF x >= AcesSaturates THEN GammaEncode(U)
        ELSE LET numerator   == Mul(x, Mul(Fx(251, 100), x) + Fx(3, 100))
                 denominator == Mul(x, Mul(Fx(243, 100), x) + Fx(59, 100))
                                  + Fx(14, 100)
                 mapped == IF denominator < 16 * U
                           THEN Div(numerator, denominator)
                           ELSE Div(numerator \div 256, denominator \div 256)
             IN  GammaEncode(Clamp01(mapped))

\* reinhardToneMapping(linear, whitePoint): Math.pow of a negative number
\* is NaN
ReinhardToneMapping(linear, whitePoint) ==
    IF linear = NaN THEN NaN
    ELSE LET denominator == U + Div(linear, whitePoint)
         IN  IF denominator <= 0 \/ linear < 0 THEN NaN
             ELSE PowFrac(Div(linear, denominator), 10, 22)

\* applyToneMapping(linear, mode, whitePoint)
ApplyToneMapping(linear, mode, whitePoint) ==
    CASE mode = "aces"        -> AcesToneMapping(linear)
      [] mode = "aces_linear" -> SimpleToneMapping(linear)
      [] mode = "reinhard"    -> ReinhardToneMapping(linear, whitePoint)
      [] mode = "simple"      -> SimpleToneMapping(linear)
      [] mode = "linear"      -> SimpleToneMapping(linear)
      [] OTHER                -> SimpleToneMapping(linear)

-----------------------------------------------------------------------------
(* grain.ts: applyPhysicalGrain *)

\* hash(.) of the four seeds applyPhysicalGrain derives from pixel (x, y):
\* <<n1, n2, the green hash, the blue hash>>, each floor(hash * U), for the
\* coordinates 0..3 x 0..3 (the integer mixing is done in doubles and 32-bit
\* words, outside what TLC's integers hold)
GrainHashes(x, y) ==
    CASE <<x, y>> = <<0, 0>> -> <<0, 1572, 3284, 7158>>
      [] <<x, y>> = <<1, 0>> -> <<8156, 1572, 2244, 2983>>
      [] <<x, y>> = <<2, 0>> -> <<8121, 8146, 1534, 5073>>
      [] <<x, y>> = <<3, 0>> -> <<4810, 8146, 5833, 7722>>
      [] <<x, y>> = <<0, 1>> -> <<7567, 1572, 4041, 5289>>
      [] <<x, y>> = <<1, 1>> -> <<7146, 1572, 4238, 4521>>
      [] <<x, y>> = <<2, 1>> -> <<3203, 8146, 1063, 7064>>
      [] <<x, y>> = <<3, 1>> -> <<808, 8146, 5099, 6546>>
      [] <<x, y>> = <<0, 2>> -> <<5744, 6585, 6740, 1128>>
      [] <<x, y>> = <<1, 2>> -> <<6198, 6585, 6816, 2903>>
      [] <<x, y>> = <<2, 2>> -> <<611, 7807, 3286, 6483>>
      [] <<x, y>> = <<3, 2>> -> <<2665, 7807, 3744, 6769>>
      [] <<x, y>> = <<0, 3>> -> <<5680, 6585, 6652, 3262>>
      [] <<x, y>> = <<1, 3>> -> <<5182, 6585, 8153, 2154>>
      [] <<x, y>> = <<2, 3>> -> <<34, 7807, 7827, 750>>
      [] <<x, y>> = <<3, 3>> -> <<847, 7807, 4183, 6728>>

\* a slip in the weighting: the same weight at every luminance
MidtoneWeightFlat(luminance) ==
    IF luminance = NaN THEN NaN ELSE U

\* 1 - (|luminance - 0.5| * 2)^1.2, not below 0
MidtoneWeight(luminance) ==
    IF luminance = NaN THEN NaN
    ELSE Max2(0, U - PowFrac(Abs(luminance - U \div 2) * 2, 12, 10))

\* applyPhysicalGrain(r, g, b, x, y, opt), opt = [iso, strength, monochrome]
ApplyPhysicalGrain(r, g, b, x, y, opt) ==
    LET isoFactor    == PowFrac(Fx(opt.iso, 200), 6, 10)
        baseStrength == Mul(Mul(Fx(4, 100), opt.strength), isoFactor)
        amplitude    == MulN(baseStrength, MidtoneWeight(Luminance709(r, g, b)))
        hs           == GrainHashes(x, y)
        noise  == MulN((Mul(hs[1], Fx(7, 10)) + Mul(hs[2], Fx(3, 10))
                          - U \div 2) * 2, amplitude)
        noiseG == MulN((hs[3] - U \div 2) * 2, amplitude)
        noiseB == MulN((hs[4] - U \div 2) * 2, amplitude)
    IN  IF opt.monochrome
        THEN Vec3(Clamp01(AddN(r, noise)), Clamp01(AddN(g, noise)),
                  Clamp01(AddN(b, noise)))
        ELSE Vec3(Clamp01(AddN(r, noise)), Clamp01(AddN(g, noiseG)),
                  Clamp01(AddN(b, noiseB)))

-----------------------------------------------------------------------------
(* page.tsx: processImage, the parts that compute values *)

\* profile.physics?.dye_coupling_matrix || getDyeCouplingMatrix(profile.id):
\* an array, even an empty one, is truthy
SelectDyeMatrix(prof) ==
    IF prof.physics.dye_coupling_matrix # <<>>
    THEN [ref |-> "profile", elems |-> prof.physics.dye_coupling_matrix[1]]
    ELSE GetDyeCouplingMatrix(prof.id)

\* dyeMatrix !== IDENTITY_MATRIX: a comparison of references
NotIdentityMatrix(dyeMatrix) == dyeMatrix.ref # "IDENTITY_MATRIX"

\* profile.rendering?.tone_mapping || 'linear'
ToneModeOf(prof) ==
    IF prof.rendering.tone_mapping = "" THEN "linear"
    ELSE prof.rendering.tone_mapping

\* the auto-exposure loop visits every SampleStride-th pixel
SampleStride == 100

LogEpsilonLux == (0 - 4) * U

\* log10(Math.max(0.0001, lux)) of one pixel
LogLux(px) ==
    LET lux == Luminance709(px[1], px[2], px[3])
    IN  IF lux <= 0 THEN LogEpsilonLux ELSE Max2(LogEpsilonLux, Log10(lux))

RECURSIVE LogLuxSum(_, _)
LogLuxSum(data, k) ==
    IF k >= Len(data) THEN 0
    ELSE LogLux(data[k + 1]) + LogLuxSum(data, k + SampleStride)

\* Math.exp(logLuxSum / count) > epsilon.  The samples are floored at
\* epsilon, so the mean logarithm is never below log(epsilon); when every
\* sample sits on the floor, the double that Math.exp returns for the mean
\* of Math.log(0.0001) lies a few units in the last place to one side of
\* 0.0001 or to the other (0.00010000000000000009 for 1 to 9 samples,
\* 9.999999999999991e-05 for 10 to 14): roundsAbove is that outcome
LogAvgAboveEpsilon(logAvg, roundsAbove) ==
    \/ logAvg > LogEpsilonLux
    \/ (logAvg = LogEpsilonLux /\ roundsAbove)

\* autoExposureBias when useAutoExposure is on.  The code averages natural
\* logarithms and exponentiates; log2(0.25 / exp(mean ln lux)) is computed
\* here as (log10 0.25 - mean log10 lux) / log10 2, the same number
AutoExposureBias(data, roundsAbove) ==
    LET count  == (Len(data) + SampleStride - 1) \div SampleStride
        logAvg == LogLuxSum(data, 0) \div count
    IN  IF LogAvgAboveEpsilon(logAvg, roundsAbove)
        THEN Div(Log10(U \div 4) - logAvg, Log10Of2)
        ELSE 0

\* the spacing of the doubles around v, in units of 1/U: a double keeps a
\* fixed number of significant bits, here as many as a value below 1 has
RECURSIVE DoubleSpacing(_)
DoubleSpacing(v) ==
    IF v < U /\ 0 - v < U THEN 1 ELSE 2 * DoubleSpacing(v \div 2)

\* a + b in doubles: the exact sum rounded to the nearest double, ties to
\* the even one; the accumulators of pass 1 are built with it
DoubleAdd(a, b) ==
    LET RoundTo(v, sp) ==
            LET q == v \div sp
                r == v % sp
            IN  IF 2 * r < sp THEN q * sp
                ELSE IF 2 * r > sp THEN (q + 1) * sp
                ELSE IF q % 2 = 0 THEN q * sp ELSE (q + 1) * sp
    IN  RoundTo(a + b, DoubleSpacing(a + b))

\* getSaturation(r, g, b)
GetSaturation(r, g, b) ==
    LET max == Max2(r, Max2(g, b))
        min == Min2(r, Min2(g, b))
    IN  IF max = 0 THEN 0 ELSE Div(max - min, max)

\* hue2rgb(p, q, t)
Hue2Rgb(p, q, t0) ==
    LET t1 == IF t0 < 0 THEN t0 + U ELSE t0
        t  == IF t1 > U THEN t1 - U ELSE t1
    IN  IF t < Fx(1, 6) THEN p + Mul((q - p) * 6, t)
        ELSE IF t < U \div 2 THEN q
        ELSE IF t < Fx(2, 3) THEN p + Mul((q - p) * 6, Fx(2, 3) - t)
        ELSE p

\* boostSaturation(r, g, b, factor): with a NaN component every comparison
\* is false and every output NaN
BoostSaturation(r, g, b, factor) ==
    IF r = NaN \/ g = NaN \/ b = NaN THEN Vec3(NaN, NaN, NaN)
    ELSE LET max == Max2(r, Max2(g, b))
             min == Min2(r, Min2(g, b))
             l   == (max + min) \div 2
         IN  IF max = min THEN Vec3(r, g, b)
             ELSE LET d  == max - min
                      s0 == IF l > U \div 2 THEN Div(d, 2 * U - max - min)
                            ELSE Div(d, max + min)
                      h  == IF max = r
                            THEN (Div(g - b, d) + (IF g < b THEN 6 * U ELSE 0)) \div 6
                            ELSE IF max = g THEN (Div(b - r, d) + 2 * U) \div 6
                            ELSE (Div(r - g, d) + 4 * U) \div 6
                      s  == Min2(U, Mul(s0, factor))
                  IN  IF s = 0 THEN Vec3(l, l, l)
                      ELSE LET q == IF l < U \div 2 THEN Mul(l, U + s)
                                    ELSE l + s - Mul(l, s)
                               p == 2 * l - q
                           IN  Vec3(Hue2Rgb(p, q, h + Fx(1, 3)),
                                    Hue2Rgb(p, q, h),
                                    Hue2Rgb(p, q, h - Fx(1, 3)))

\* Math.pow(pixelData[i], 2.2) on the three colour components
SceneLinear(px) ==
    Vec3(PowFrac(px[1], 22, 10), PowFrac(px[2], 22, 10), PowFrac(px[3], 22, 10))

\* a slip in the pass-1 branch: only colour negative film is inverted
Pass1InvertsNegativeOnly(filmTypeFirstPass) == filmTypeFirstPass = "negative"

\* pass 1 takes the else-branch (invert) unless the film is reversal
Pass1Inverts(filmTypeFirstPass) == filmTypeFirstPass # "reversal"

\* the body of the pass-1 loop for one pixel: what it adds to the
\* accumulators and collections, and which stages it ran
Pass1(e, loc, px) ==
    LET inverts == Pass1Inverts(e.filmType)
        couples == inverts /\ NotIdentityMatrix(loc.dyeMatrix)
        \* stage 5: afterInvert is `inverted` in the else-branch, `scanned`
        \* in the reversal branch; the coupling sits inside the else-branch
        Collect(rgb, scanned, afterInvert) ==
            [inputSat       |-> GetSaturation(rgb[1], rgb[2], rgb[3]),
             satAfterInvert |-> GetSaturation(afterInvert[1], afterInvert[2],
                                              afterInvert[3]),
             scanned        |-> scanned,
             afterInvert    |-> afterInvert,
             finalDensity   |-> IF couples
                                THEN ApplyDyeCouplingToDensity(
                                         afterInvert, loc.dyeMatrix.elems)
                                ELSE afterInvert,
             applied        |-> (IF inverts THEN {"invert"} ELSE {})
                                  \cup (IF couples THEN {"dye_coupling"} ELSE {})]
        \* stage 5 from the scanned value
        AfterScan(rgb, scanned) ==
            Collect(rgb, scanned,
                    IF inverts THEN Invert(e, scanned, U) ELSE scanned)
        \* stages 2-4: expose, develop, scan
        AfterInput(rgb) ==
            AfterScan(rgb, Scan(e, Develop(e, Expose(e, rgb, loc.totalExposure))))
    IN  AfterInput(SceneLinear(px))

\* Array.prototype.sort((a, b) => a - b).  A collection holds numbers only
\* or NaN only (a row of a short matrix is NaN for every pixel), so the
\* comparator is consistent
InsertSorted(sorted, v) ==
    LET k == Cardinality({j \in 1..Len(sorted) : sorted[j] <= v})
    IN  SubSeq(sorted, 1, k) \o <<v>> \o SubSeq(sorted, k + 1, Len(sorted))

RECURSIVE SortAscending(_)
SortAscending(arr) ==
    IF Len(arr) <= 1 THEN arr
    ELSE InsertSorted(SortAscending(SubSeq(arr, 1, Len(arr) - 1)), arr[Len(arr)])

FIXED_MAX == Fx(27, 10)

\* Math.floor(n * 0.005), Math.floor(n * 0.995)
FloorLowPercentile(n) == (n * 5) \div 1000
FloorHighPercentile(n) == (n * 995) \div 1000

\* the range of one channel with preserveExposure on
PreserveRange(arr, filmType) ==
    IF filmType = "reversal"
    THEN [min |-> 0, max |-> U, scale |-> Q(1, 1)]
    ELSE LET idxLow == FloorLowPercentile(Len(arr))
             offset == OrElse(ArrayAt(arr, idxLow), 0)
         IN  [min |-> offset, max |-> offset + FIXED_MAX, scale |-> Q(10, 27)]

\* getRange(arr) with preserveExposure off
GetRange(arr, useLinear) ==
    LET idxHigh == (IF useLinear THEN Len(arr)
                    ELSE FloorHighPercentile(Len(arr))) - 1
        idxLow  == IF useLinear THEN 0 ELSE FloorLowPercentile(Len(arr))
        min     == OrElse(ArrayAt(arr, idxLow), 0)
        max     == OrElse(ArrayAt(arr, idxHigh), 3 * U)
        range   == max - min
    IN  [min |-> min, max |-> max,
         scale |-> IF range * 1000 > U THEN Q(U, range) ELSE Q(1, 1)]

\* a slip in the safety bounds: the compensated ratio is used as it is
SaturationRestoreFactorUnclamped(st) ==
    LET avgInputSatFirstPass    == st.inputSatSum \div st.pixelCount
        avgAfterInvertFirstPass == st.satAfterInvert \div st.pixelCount
    IN  IF avgAfterInvertFirstPass * 1000 > U
        THEN (Div(avgInputSatFirstPass, avgAfterInvertFirstPass) * 3) \div 2
        ELSE (U * 3) \div 2

\* SATURATION_RESTORE_FACTOR from the pass-1 accumulators
SaturationRestoreFactor(st) ==
    LET avgInputSatFirstPass    == st.inputSatSum \div st.pixelCount
        avgAfterInvertFirstPass == st.satAfterInvert \div st.pixelCount
        rawFactor == IF avgAfterInvertFirstPass * 1000 > U
                     THEN Div(avgInputSatFirstPass, avgAfterInvertFirstPass)
                     ELSE U
    IN  Min2(Max2((rawFactor * 3) \div 2, U), 5 * U)

\* lines 344-412: sort, ranges, saturation factor
Derive(st, loc, preserveExposure) ==
    LET sortedR == SortAscending(st.densitiesR)
        sortedG == SortAscending(st.densitiesG)
        sortedB == SortAscending(st.densitiesB)
        rg(arr) == IF preserveExposure THEN PreserveRange(arr, loc.filmType)
                   ELSE GetRange(arr, loc.useLinear)
    IN  [sortedR |-> sortedR, sortedG |-> sortedG, sortedB |-> sortedB,
         rangeR |-> rg(sortedR), rangeG |-> rg(sortedG), rangeB |-> rg(sortedB),
         SATURATION_RESTORE_FACTOR |-> SaturationRestoreFactor(st)]

\* (value - range.min) * range.scale
Normalize(v, range) ==
    IF v = NaN THEN NaN
    ELSE ((v - range.min) * range.scale.n) \div range.scale.d

Pass2Inverts(filmType) == filmType # "reversal"

Pass2Couples(loc) ==
    ~loc.isBW /\ loc.filmType # "reversal" /\ NotIdentityMatrix(loc.dyeMatrix)

Pass2Halates(loc) == ~loc.isBW /\ loc.filmType # "reversal"

HalationOptions ==
    [strength |-> Fx(15, 100), radius |-> Fx(15, 10), threshold |-> <<>>]

\* the body of the pass-2 loop for one pixel
Pass2(e, loc, dv, px) ==
    LET inverts == Pass2Inverts(loc.filmType)
        couples == Pass2Couples(loc)
        halates == Pass2Halates(loc)
        \* the normalization into linearBuffer
        Store(res, afterInvert, processed, halated) ==
            [scanned     |-> res,
             afterInvert |-> afterInvert,
             processed   |-> processed,
             halated     |-> halated,
             linear      |-> <<Normalize(halated[1], dv.rangeR),
                               Normalize(halated[2], dv.rangeG),
                               Normalize(halated[3], dv.rangeB), U>>,
             applied     |-> (IF inverts THEN {"invert"} ELSE {})
                               \cup (IF couples THEN {"dye_coupling"} ELSE {})
                               \cup (IF halates THEN {"halation"} ELSE {})]
        \* red halation
        Halate(res, afterInvert, processed) ==
            Store(res, afterInvert, processed,
                  IF halates
                  THEN ApplyRedHalation(processed[1], processed[2],
                                        processed[3], HalationOptions)
                  ELSE processed)
        \* CMY dye coupling
        Couple(res, afterInvert) ==
            Halate(res, afterInvert,
                   IF couples
                   THEN ApplyDyeCouplingToDensity(afterInvert,
                                                  loc.dyeMatrix.elems)
                   ELSE afterInvert)
        \* the branch on the film type
        AfterProcess(res) ==
            Couple(res, IF inverts THEN Invert(e, res, U) ELSE res)
    IN  AfterProcess(ProcessPixel(e, SceneLinear(px), loc.totalExposure))

BloomOptions(bloomStrength) ==
    [strength |-> bloomStrength, threshold |-> Fx(65, 100), radius |-> 2 * U,
     weights |-> <<>>]

\* the display encoding of one channel in pass 3
DisplayEncode(v, loc) ==
    IF loc.useLinear THEN GammaEncode(Clamp01(v))
    ELSE IF loc.useACES THEN ApplyToneMapping(v, "aces", U)
    ELSE GammaEncode(Clamp01(v))

\* a number stored into a Uint8ClampedArray: NaN is 0, the rest is clamped
\* to 0..255 and rounded to nearest, ties to even (v in byte units)
ToUint8Clamped(v) ==
    IF v = NaN THEN 0
    ELSE LET c == Max2(0, Min2(255 * U, v))
             n == c \div U
             f == c % U
         IN  IF 2 * f < U THEN n
             ELSE IF 2 * f > U THEN n + 1
             ELSE IF n % 2 = 0 THEN n ELSE n + 1

\* a slip in the quantization: the dithered value is floored into a plain
\* array, with neither the clamp nor the clamped store
OutputByteUnclamped(v, random) ==
    IF v = NaN THEN NaN ELSE (v * 255 + random - U \div 2) \div U

\* Math.max(0, Math.min(255, (v + dither) * 255)) with
\* dither = (random - 0.5) / 255, stored into the output buffer
OutputByte(v, random) ==
    IF v = NaN THEN ToUint8Clamped(NaN)
    ELSE ToUint8Clamped(Max2(0, Min2(255 * U, v * 255 + random - U \div 2)))

\* a slip in pass 3: the grain is placed by the random draw, as the
\* older applyFilmGrain seeds its noise from Math.random
Pass3GrainFromRandom(loc, dv, prof, bloomed, px, py, random) ==
    LET \* dither and output
        Output(display, final) ==
            [display |-> display,
             final   |-> final,
             output  |-> <<OutputByte(final[1], random),
                           OutputByte(final[2], random),
                           OutputByte(final[3], random), 255>>,
             applied |-> {"tone_mapping"}
                           \cup (IF ~loc.isBW THEN {"saturation"} ELSE {"luma"})
                           \cup (IF loc.isBW THEN {"grain_mono"}
                                 ELSE {"grain_color"})]
        \* physical grain
        Grain(display, boosted) ==
            Output(display,
                   ApplyPhysicalGrain(boosted[1], boosted[2], boosted[3],
                                      (px + random) % 4, py,
                                      [iso |-> IF prof.meta.iso = 0 THEN 100
                                               ELSE prof.meta.iso,
                                       strength |-> U,
                                       monochrome |-> loc.isBW]))
        Gray(luma) == Vec3(luma, luma, luma)
        \* saturation restoration, or the luma of a black-and-white film
        Restore(display) ==
            Grain(display,
                  IF ~loc.isBW
                  THEN BoostSaturation(display[1], display[2], display[3],
                                       dv.SATURATION_RESTORE_FACTOR)
                  ELSE Gray(AddN(AddN(MulN(display[1], Fx(299, 1000)),
                                      MulN(display[2], Fx(587, 1000))),
                                 MulN(display[3], Fx(114, 1000)))))
    IN  Restore(Vec3(DisplayEncode(bloomed[1], loc),
                     DisplayEncode(bloomed[2], loc),
                     DisplayEncode(bloomed[3], loc)))

\* the body of the pass-3 loop for the pixel at (px, py)
\* a slip in pass 3: a black-and-white film keeps its display triple instead
\* of the luma
Pass3KeepsDisplay(loc, dv, prof, bloomed, px, py, random) ==
    LET \* dither and output
        Output(display, final) ==
            [display |-> display,
             final   |-> final,
             output  |-> <<OutputByte(final[1], random),
                           OutputByte(final[2], random),
                           OutputByte(final[3], random), 255>>,
             applied |-> {"tone_mapping"}
                           \cup (IF ~loc.isBW THEN {"saturation"} ELSE {"luma"})
                           \cup (IF loc.isBW THEN {"grain_mono"}
                                 ELSE {"grain_color"})]
        \* physical grain
        Grain(display, boosted) ==
            Output(display,
                   ApplyPhysicalGrain(boosted[1], boosted[2], boosted[3], px, py,
                                      [iso |-> IF prof.meta.iso = 0 THEN 100
                                               ELSE prof.meta.iso,
                                       strength |-> U,
                                       monochrome |-> loc.isBW]))
        \* saturation restoration, or the luma of a black-and-white film
        Restore(display) ==
            Grain(display,
                  IF ~loc.isBW
                  THEN BoostSaturation(display[1], display[2], display[3],
                                       dv.SATURATION_RESTORE_FACTOR)
                  ELSE display)
    IN  Restore(Vec3(DisplayEncode(bloomed[1], loc),
                     DisplayEncode(bloomed[2], loc),
                     DisplayEncode(bloomed[3], loc)))

Pass3(loc, dv, prof, bloomed, px, py, random) ==
    LET \* dither and output
        Output(display, final) ==
            [display |-> display,
             final   |-> final,
             output  |-> <<OutputByte(final[1], random),
                           OutputByte(final[2], random),
                           OutputByte(final[3], random), 255>>,
             applied |-> {"tone_mapping"}
                           \cup (IF ~loc.isBW THEN {"saturation"} ELSE {"luma"})
                           \cup (IF loc.isBW THEN {"grain_mono"}
                                 ELSE {"grain_color"})]
        \* physical grain
        Grain(display, boosted) ==
            Output(display,
                   ApplyPhysicalGrain(boosted[1], boosted[2], boosted[3], px, py,
                                      [iso |-> IF prof.meta.iso = 0 THEN 100
                                               ELSE prof.meta.iso,
                                       strength |-> U,
                                       monochrome |-> loc.isBW]))
        Gray(luma) == Vec3(luma, luma, luma)
        \* saturation restoration, or the luma of a black-and-white film
        Restore(display) ==
            Grain(display,
                  IF ~loc.isBW
                  THEN BoostSaturation(display[1], display[2], display[3],
                                       dv.SATURATION_RESTORE_FACTOR)
                  ELSE Gray(AddN(AddN(MulN(display[1], Fx(299, 1000)),
                                      MulN(display[2], Fx(587, 1000))),
                                 MulN(display[3], Fx(114, 1000)))))
    IN  Restore(Vec3(DisplayEncode(bloomed[1], loc),
                     DisplayEncode(bloomed[2], loc),
                     DisplayEncode(bloomed[3], loc)))

-----------------------------------------------------------------------------
(* Specification SpecInterp: interpolate as a pure function *)

EmptyStats ==
    [densitiesR |-> <<>>, densitiesG |-> <<>>, densitiesB |-> <<>>,
     inputSatSum |-> 0, satAfterInvert |-> 0, pixelCount |-> 0]

\* no run of processImage in progress
IdlePipe ==
    /\ pc = "idle"
    /\ options = <<>>
    /\ pixelData = <<>>
    /\ width = 0
    /\ locals = <<>>
    /\ pixelIdx = 0
    /\ stats = EmptyStats
    /\ derived = <<>>
    /\ linearBuffer = <<>>
    /\ bloomedBuffer = <<>>
    /\ outputBuffer = <<>>
    /\ trace = <<>>

MaxPts == 4
GridX == {0, 2, 4}
GridY == {0, 1, 2}
ArgX == -1..5

Point == [x : GridX, y : GridY]

NonDecreasingX(points) ==
    \A i \in 1..(Len(points) - 1) : points[i].x <= points[i + 1].x

SmallCurves ==
    {c \in UNION {[1..n -> Point] : n \in 0..MaxPts} : NonDecreasingX(c)}

InitInterp ==
    /\ qx \in ArgX
    /\ qpoints \in SmallCurves
    /\ qres = <<>>
    /\ profile = <<>>
    /\ engine = <<>>
    /\ lastCall = <<>>
    /\ IdlePipe

CallInterpolate ==
    /\ qres = <<>>
    /\ qres' = <<InterpolateQ(qx, qpoints)>>
    /\ UNCHANGED <<qx, qpoints, engineVars, pipeVars>>

NextInterp == CallInterpolate

SpecInterp == InitInterp /\ [][NextInterp]_vars

-----------------------------------------------------------------------------
(* Specification SpecEngine: construction, then the per-pixel methods *)

IdleInterp == qx = 0 /\ qpoints = <<>> /\ qres = <<>>

PixelChoices ==
    {Vec3(0, 0, 0), Vec3(U, U, U), Vec3(Fx(18, 100), Fx(18, 100), Fx(18, 100)),
     Vec3(U, 0, 0)}
EvChoices == {0, U}
DensityChoices == {Vec3(0, 0, 0), Vec3(U, U \div 2, 0), Vec3(3 * U, 3 * U, 3 * U)}
ScannedChoices == {Vec3(U, U, U), Vec3(Fx(4, 10), Fx(15, 100), Fx(8, 100)),
                   Vec3(Fx(1, 100), 0, U)}

InitEngine ==
    /\ IdleInterp
    /\ profile \in EngineProfiles
    /\ engine = <<>>
    /\ lastCall = <<>>
    /\ IdlePipe

\* new SimulationEngine(profile)
Construct ==
    /\ engine = <<>>
    /\ engine' = IF ConstructorThrows(profile)
                 THEN <<"threw">>
                 ELSE <<"ok", NewEngine(profile)>>
    /\ UNCHANGED <<profile, lastCall, interpVars, pipeVars>>

Constructed == Len(engine) = 2

Called(op, args, result) == <<[op |-> op, args |-> args, result |-> result]>>

CallExpose ==
    /\ Constructed
    /\ lastCall = <<>>
    /\ \E rgb \in PixelChoices, ev \in EvChoices :
         lastCall' = Called("expose", <<rgb, ev>>, Expose(engine[2], rgb, ev))
    /\ UNCHANGED <<profile, engine, interpVars, pipeVars>>

\* a slip in develop: the densities it returns are kept as the engine's dMin
CallDevelopKeepsDMin ==
    /\ Constructed
    /\ lastCall = <<>>
    /\ \E rgb \in PixelChoices :
         \E logExp \in {Expose(engine[2], rgb, 0)} :
             \E d \in {Develop(engine[2], logExp)} :
                 /\ lastCall' = Called("develop", <<logExp>>, d)
                 /\ engine' = <<"ok", [engine[2] EXCEPT !.dMin = d]>>
    /\ UNCHANGED <<profile, interpVars, pipeVars>>

CallDevelop ==
    /\ Constructed
    /\ lastCall = <<>>
    /\ \E rgb \in PixelChoices :
         LET logExp == Expose(engine[2], rgb, 0)
         IN  lastCall' = Called("develop", <<logExp>>, Develop(engine[2], logExp))
    /\ UNCHANGED <<profile, engine, interpVars, pipeVars>>

CallScan ==
    /\ Constructed
    /\ lastCall = <<>>
    /\ \E d \in DensityChoices :
         lastCall' = Called("scan", <<d>>, Scan(engine[2], d))
    /\ UNCHANGED <<profile, engine, interpVars, pipeVars>>

CallInvert ==
    /\ Constructed
    /\ lastCall = <<>>
    /\ \E sc \in ScannedChoices :
         lastCall' = Called("invert", <<sc>>, Invert(engine[2], sc, U))
    /\ UNCHANGED <<profile, engine, interpVars, pipeVars>>

CallProcessPixel ==
    /\ Constructed
    /\ lastCall = <<>>
    /\ \E rgb \in PixelChoices, ev \in EvChoices :
         lastCall' = Called("processPixel", <<rgb, ev>>,
                            ProcessPixel(engine[2], rgb, ev))
    /\ UNCHANGED <<profile, engine, interpVars, pipeVars>>

CallGetFilmType ==
    /\ Constructed
    /\ lastCall = <<>>
    /\ lastCall' = Called("getFilmType", <<>>, engine[2].filmType)
    /\ UNCHANGED <<profile, engine, interpVars, pipeVars>>

\* the caller takes the result; the engine is ready for the next call
Return ==
    /\ lastCall # <<>>
    /\ lastCall' = <<>>
    /\ UNCHANGED <<profile, engine, interpVars, pipeVars>>

NextEngine ==
    \/ Construct
    \/ CallExpose
    \/ CallDevelop
    \/ CallScan
    \/ CallInvert
    \/ CallProcessPixel
    \/ CallGetFilmType
    \/ Return

SpecEngine == InitEngine /\ [][NextEngine]_vars

-----------------------------------------------------------------------------
(* Specification SpecDriver: the reference driver, which builds an engine *)
(* and compares a pixel at 0 EV and at +1 EV                              *)

\* processPixel(inputRGB, 0) and processPixel(inputRGB, 1), each inverted
ReferenceDriver ==
    /\ Constructed
    /\ lastCall = <<>>
    /\ \E inputRGB \in PixelChoices :
         \E outputRGB \in {ProcessPixel(engine[2], inputRGB, 0)},
            outputRGB_plus1 \in {ProcessPixel(engine[2], inputRGB, U)} :
             lastCall' = Called("driver", <<inputRGB>>,
                                [positive0 |-> Invert(engine[2], outputRGB, U),
                                 positive1 |-> Invert(engine[2], outputRGB_plus1, U)])
    /\ UNCHANGED <<profile, engine, interpVars, pipeVars>>

NextDriver ==
    \/ Construct
    \/ ReferenceDriver
    \/ Return

SpecDriver == InitEngine /\ [][NextDriver]_vars

-----------------------------------------------------------------------------
(* Specification SpecPipe: one run of processImage, from the decoded image *)
(* to the output buffer.  The loops advance one pixel per step.            *)

MaxPixels == 2

NegativeSens == Sensitometry(NegativeCurve, SlowNegativeCurve, NegativeCurve)
ReversalSens == Sensitometry(ReversalCurve, ReversalCurve, ReversalCurve)

\* the profiles a run is given: the three film types, with and without a
\* dye table, with the dye-coupling matrix absent, preset, supplied, or
\* supplied with the wrong number of elements, one that cannot be built,
\* and one of little contrast
PipeProfiles ==
    {MakeProfile("kodak_portra_400", "negative", "C-41", <<>>, <<>>, <<>>,
                 NegativeSens, ""),
     MakeProfile("kodak_portra", "", "C-41", <<>>, MaskedDyeTable, <<>>,
                 NegativeSens, "aces"),
     MakeProfile("kodak_portra_400", "negative", "C-41", <<>>, <<>>,
                 <<PortraLikeMatrix>>, NegativeSens, "simple"),
     MakeProfile("kodak_portra_400", "negative", "C-41", <<>>, <<>>,
                 <<ProfileIdentityMatrix>>, NegativeSens, ""),
     MakeProfile("kodak_portra_400", "negative", "C-41", <<>>, <<>>,
                 <<FourElementMatrix>>, NegativeSens, ""),
     MakeProfile("fuji_provia_100f", "", "E-6", <<>>, <<>>, <<>>,
                 ReversalSens, "reinhard"),
     MakeProfile("fuji_provia_100f", "reversal", "E-6", <<>>, <<>>,
                 <<PortraLikeMatrix>>, ReversalSens, ""),
     MakeProfile("kodak_tri-x_400", "", "BW", <<>>, <<>>, <<>>,
                 NegativeSens, ""),
     MakeProfile("kodak_tri-x_400", "bw_negative", "BW", <<>>, <<>>,
                 <<PortraLikeMatrix>>, NegativeSens, "aces"),
     MakeProfile("kodak_portra_400", "negative", "C-41", <<>>, <<>>, <<>>,
                 Sensitometry(NegativeCurve, EmptyCurve, NegativeCurve), ""),
     MakeProfile("fuji_velvia_50", "reversal", "E-6", <<>>, <<>>, <<>>,
                 Sensitometry(LowContrastReversalCurve, LowContrastReversalCurve,
                              LowContrastReversalCurve), "")}

\* decoded pixels <<r, g, b, a>>: black (transparent), mid grey (half
\* transparent), white, a saturated red
PixelInputs ==
    <<<<0, 0, 0, 0>>, <<U \div 2, U \div 2, U \div 2, U \div 2>>, <<U, U, U, U>>,
      <<U, U \div 4, 0, U>>>>

\* n pixels: one input repeated (step 0) or the inputs in turn (step 1)
ImageData(n, first, step) ==
    [k \in 1..n |-> PixelInputs[((first + (k - 1) * step) % Len(PixelInputs)) + 1]]

\* images of 1..MaxPixels pixels, as one row or as one column
Images ==
    UNION {{[data |-> ImageData(n, first, step), width |-> w] :
              first \in 0..(Len(PixelInputs) - 1), step \in {0, 1}, w \in {1, n}}
           : n \in 1..MaxPixels}

\* Math.random(): its least value and one just below 1
RandomChoices == {0, U - 1}

\* the user's settings: exposure slider, bloom slider, the two switches
ExposureChoices ==
    {[exposure |-> 0, useAutoExposure |-> FALSE],
     [exposure |-> U, useAutoExposure |-> FALSE],
     [exposure |-> 0 - U \div 2, useAutoExposure |-> TRUE]}

OptionChoices ==
    {[exposure |-> x.exposure, useAutoExposure |-> x.useAutoExposure,
      bloomStrength |-> b, preserveExposure |-> pe] :
        x \in ExposureChoices, b \in {0, U \div 2}, pe \in BOOLEAN}

\* the RAW file is decoded into pixelData; nothing of the simulation has run
InitPipe ==
    /\ IdleInterp
    /\ profile \in PipeProfiles
    /\ engine = <<>>
    /\ lastCall = <<>>
    /\ pc = "start"
    /\ options \in OptionChoices
    /\ \E img \in Images :
         /\ pixelData = img.data
         /\ width = img.width
    /\ locals = <<>>
    /\ pixelIdx = 0
    /\ stats = EmptyStats
    /\ derived = <<>>
    /\ linearBuffer = <<>>
    /\ bloomedBuffer = <<>>
    /\ outputBuffer = <<>>
    /\ trace = <<>>

\* a loop `for (i = 0; i < pixelData.length; i += 4)` has a pixel left
LoopContinues(k, data) == k < Len(data)

\* a slip in the loop's increment: every other pixel is visited
NextPixelSkipsOne(k) == k + 2

\* the loop's increment i += 4, in pixels
NextPixel(k) == k + 1

Event(stage, pixel, applied, matrix, scanned, used) ==
    [stage |-> stage, pixel |-> pixel, applied |-> applied, matrix |-> matrix,
     scanned |-> scanned, used |-> used]

\* lines 163-216: build the engine, pick the matrix and the tone mode,
\* compute the exposure; a throwing constructor lands in the catch block
Start ==
    /\ pc = "start"
    /\ IF ConstructorThrows(profile)
       THEN /\ engine' = <<"threw">>
            /\ pc' = "failed"
            /\ UNCHANGED <<locals, outputBuffer>>
       ELSE \E e \in {NewEngine(profile)}, toneMode \in {ToneModeOf(profile)},
               autoExposureBias \in {IF options.useAutoExposure
                                     THEN AutoExposureBias(pixelData, roundsAbove)
                                     ELSE 0 : roundsAbove \in BOOLEAN} :
                /\ engine' = <<"ok", e>>
                /\ pc' = "pass1"
                /\ locals' = [filmType |-> e.filmType,
                              isBW |-> e.filmType = "bw_negative",
                              dyeMatrix |-> SelectDyeMatrix(profile),
                              toneMode |-> toneMode,
                              useACES |-> toneMode = "aces",
                              useLinear |-> toneMode = "linear",
                              totalExposure |-> options.exposure + autoExposureBias]
                /\ outputBuffer' = [k \in 1..Len(pixelData) |-> <<0, 0, 0, 0>>]
    /\ UNCHANGED <<profile, lastCall, interpVars, options, pixelData, width,
                   pixelIdx, stats, derived, linearBuffer, bloomedBuffer, trace>>

\* what one iteration of the first pass adds to the accumulators and the
\* collections (lines 290, 310-313, 324-328)
Accumulate(st, p) ==
    [densitiesR |-> Append(st.densitiesR, p.finalDensity[1]),
     densitiesG |-> Append(st.densitiesG, p.finalDensity[2]),
     densitiesB |-> Append(st.densitiesB, p.finalDensity[3]),
     inputSatSum |-> DoubleAdd(st.inputSatSum, p.inputSat),
     satAfterInvert |-> DoubleAdd(st.satAfterInvert, p.satAfterInvert),
     pixelCount |-> st.pixelCount + 1]

\* one iteration of the first pass (lines 283-340)
Pass1Pixel ==
    /\ pc = "pass1"
    /\ LoopContinues(pixelIdx, pixelData)
    /\ \E p \in {Pass1(engine[2], locals, pixelData[pixelIdx + 1])} :
           /\ stats' = Accumulate(stats, p)
           /\ trace' = Append(trace,
                              Event("pass1", pixelIdx, p.applied,
                                    locals.dyeMatrix.elems, p.scanned,
                                    p.afterInvert))
    /\ pixelIdx' = NextPixel(pixelIdx)
    /\ UNCHANGED <<profile, engine, lastCall, interpVars, pc, options, pixelData,
                   width, locals, derived, linearBuffer, bloomedBuffer,
                   outputBuffer>>

\* after the first loop (lines 344-418): sort the collections, derive the
\* ranges and the saturation factor, allocate the linear buffer
SortAndDerive ==
    /\ pc = "pass1"
    /\ ~LoopContinues(pixelIdx, pixelData)
    /\ \E dv \in {Derive(stats, locals, options.preserveExposure)} :
           /\ stats' = [stats EXCEPT !.densitiesR = dv.sortedR,
                                     !.densitiesG = dv.sortedG,
                                     !.densitiesB = dv.sortedB]
           /\ derived' = <<[rangeR |-> dv.rangeR, rangeG |-> dv.rangeG,
                            rangeB |-> dv.rangeB,
                            SATURATION_RESTORE_FACTOR |->
                                dv.SATURATION_RESTORE_FACTOR]>>
    /\ linearBuffer' = [k \in 1..Len(pixelData) |-> <<0, 0, 0, 0>>]
    /\ trace' = Append(trace, Event("derive", 0 - 1, {}, <<>>, <<>>, <<>>))
    /\ pc' = "pass2"
    /\ pixelIdx' = 0
    /\ UNCHANGED <<profile, engine, lastCall, interpVars, options, pixelData,
                   width, locals, bloomedBuffer, outputBuffer>>

\* one iteration of the second pass (lines 420-462)
Pass2Pixel ==
    /\ pc = "pass2"
    /\ LoopContinues(pixelIdx, pixelData)
    /\ \E p \in {Pass2(engine[2], locals, derived[1], pixelData[pixelIdx + 1])} :
           /\ linearBuffer' = [linearBuffer EXCEPT ![pixelIdx + 1] = p.linear]
           /\ trace' = Append(trace,
                              Event("pass2", pixelIdx, p.applied,
                                    locals.dyeMatrix.elems, p.scanned,
                                    p.afterInvert))
    /\ pixelIdx' = NextPixel(pixelIdx)
    /\ UNCHANGED <<profile, engine, lastCall, interpVars, pc, options, pixelData,
                   width, locals, stats, derived, bloomedBuffer, outputBuffer>>

\* after the second loop (lines 465-469): applyPyramidBloom on the buffer
Bloom ==
    /\ pc = "pass2"
    /\ ~LoopContinues(pixelIdx, pixelData)
    /\ bloomedBuffer' = ApplyPyramidBloom(linearBuffer, width,
                                          Len(pixelData) \div width,
                                          BloomOptions(options.bloomStrength))
    /\ trace' = Append(trace, Event("bloom", 0 - 1, {}, <<>>, <<>>, <<>>))
    /\ pc' = "pass3"
    /\ pixelIdx' = 0
    /\ UNCHANGED <<profile, engine, lastCall, interpVars, options, pixelData,
                   width, locals, stats, derived, linearBuffer, outputBuffer>>

\* one iteration of the third pass (lines 472-532); Math.random() is any of
\* RandomChoices
Pass3Pixel ==
    /\ pc = "pass3"
    /\ LoopContinues(pixelIdx, pixelData)
    /\ \E random \in RandomChoices :
         \E p \in {Pass3(locals, derived[1], profile, bloomedBuffer[pixelIdx + 1],
                         pixelIdx % width, pixelIdx \div width, random)} :
             /\ outputBuffer' = [outputBuffer EXCEPT ![pixelIdx + 1] = p.output]
             /\ trace' = Append(trace,
                                Event("pass3", pixelIdx, p.applied, <<>>,
                                      p.display, p.final))
    /\ pixelIdx' = NextPixel(pixelIdx)
    /\ UNCHANGED <<profile, engine, lastCall, interpVars, pc, options, pixelData,
                   width, locals, stats, derived, linearBuffer, bloomedBuffer>>

\* after the third loop (lines 565-566): the output buffer goes to the canvas
Finish ==
    /\ pc = "pass3"
    /\ ~LoopContinues(pixelIdx, pixelData)
    /\ pc' = "done"
    /\ UNCHANGED <<profile, engine, lastCall, interpVars, options, pixelData,
                   width, locals, pixelIdx, stats, derived, linearBuffer,
                   bloomedBuffer, outputBuffer, trace>>

NextPipe ==
    \/ Start
    \/ Pass1Pixel
    \/ SortAndDerive
    \/ Pass2Pixel
    \/ Bloom
    \/ Pass3Pixel
    \/ Finish

SpecPipe == InitPipe /\ [][NextPipe]_vars

-----------------------------------------------------------------------------
(* Specification SpecOrder: processImage with the iterations of pass 1 and *)
(* of pass 2 run in any order, as a parallel schedule would run them       *)

MaxReordered == 3

\* decoded pixels of four different saturations
OrderPixelInputs ==
    <<<<U, U \div 2, U \div 2, U>>, <<U, (3 * U) \div 4, (3 * U) \div 4, U>>,
      <<U, U \div 4, U \div 4, U>>, <<U \div 2, U \div 4, 0, U>>>>

\* one row of 1..MaxReordered of these pixels, starting at any of them
OrderImages ==
    {[k \in 1..n |-> OrderPixelInputs[((first + k - 1) % Len(OrderPixelInputs)) + 1]] :
        n \in 1..MaxReordered, first \in 0..(Len(OrderPixelInputs) - 1)}

InitOrder ==
    /\ IdleInterp
    /\ profile \in PipeProfiles
    /\ engine = <<>>
    /\ lastCall = <<>>
    /\ pc = "start"
    /\ options \in {o \in OptionChoices :
                       o.exposure = 0 /\ ~o.useAutoExposure /\ o.bloomStrength = 0}
    /\ pixelData \in OrderImages
    /\ width = Len(pixelData)
    /\ locals = <<>>
    /\ pixelIdx = 0
    /\ stats = EmptyStats
    /\ derived = <<>>
    /\ linearBuffer = <<>>
    /\ bloomedBuffer = <<>>
    /\ outputBuffer = <<>>
    /\ trace = <<>>

\* the pixels a pass has not visited yet
Unvisited(stage) ==
    {k \in 0..(Len(pixelData) - 1) :
        \A j \in 1..Len(trace) :
            ~(trace[j].stage = stage /\ trace[j].pixel = k)}

\* the body of the first loop for any pixel not yet visited; pixelIdx
\* counts the iterations done
Pass1AnyPixel ==
    /\ pc = "pass1"
    /\ LoopContinues(pixelIdx, pixelData)
    /\ \E k \in Unvisited("pass1") :
         \E p \in {Pass1(engine[2], locals, pixelData[k + 1])} :
             /\ stats' = Accumulate(stats, p)
             /\ trace' = Append(trace,
                                Event("pass1", k, p.applied,
                                      locals.dyeMatrix.elems, p.scanned,
                                      p.afterInvert))
    /\ pixelIdx' = NextPixel(pixelIdx)
    /\ UNCHANGED <<profile, engine, lastCall, interpVars, pc, options, pixelData,
                   width, locals, derived, linearBuffer, bloomedBuffer,
                   outputBuffer>>

\* the body of the second loop for any pixel not yet visited
Pass2AnyPixel ==
    /\ pc = "pass2"
    /\ LoopContinues(pixelIdx, pixelData)
    /\ \E k \in Unvisited("pass2") :
         \E p \in {Pass2(engine[2], locals, derived[1], pixelData[k + 1])} :
             /\ linearBuffer' = [linearBuffer EXCEPT ![k + 1] = p.linear]
             /\ trace' = Append(trace,
                                Event("pass2", k, p.applied,
                                      locals.dyeMatrix.elems, p.scanned,
                                      p.afterInvert))
    /\ pixelIdx' = NextPixel(pixelIdx)
    /\ UNCHANGED <<profile, engine, lastCall, interpVars, pc, options, pixelData,
                   width, locals, stats, derived, bloomedBuffer, outputBuffer>>

NextOrder ==
    \/ Start
    \/ Pass1AnyPixel
    \/ SortAndDerive
    \/ Pass2AnyPixel

SpecOrder == InitOrder /\ [][NextOrder]_vars

-----------------------------------------------------------------------------
(* Specification SpecEffects: the per-pixel effects and the bloom called as *)
(* pure functions, one call at a time                                       *)

InitEffects ==
    /\ IdleInterp
    /\ profile = <<>>
    /\ engine = <<>>
    /\ lastCall = <<>>
    /\ IdlePipe

\* channel values handed to an effect: display values in [0, 1] and
\* densities above 1
ChannelChoices == {0, U \div 2, U, 2 * U}

HalationOptionChoices ==
    {[strength |-> st, radius |-> rad, threshold |-> th] :
        st \in {0, Fx(15, 100), U}, rad \in {Fx(15, 10), 3 * U},
        th \in {<<>>, <<Fx(3, 10)>>}}

CallApplyRedHalation ==
    /\ lastCall = <<>>
    /\ \E r \in ChannelChoices, g \in ChannelChoices, b \in ChannelChoices,
          opt \in HalationOptionChoices :
         lastCall' = Called("applyRedHalation", <<r, g, b, opt>>,
                            ApplyRedHalation(r, g, b, opt))
    /\ UNCHANGED <<profile, engine, interpVars, pipeVars>>

\* density values: below the base, at the base, and up to the shoulder
DensityValueChoices == {0 - U \div 4, 0, Fx(37, 100), U, Fx(24, 10)}

MatrixArgChoices ==
    {IDENTITY_MATRIX.elems, DYE_COUPLING_PRESETS("kodak_portra"),
     FourElementMatrix}

CallApplyDyeCouplingToDensity ==
    /\ lastCall = <<>>
    /\ \E dr \in DensityValueChoices, dg \in DensityValueChoices,
          db \in DensityValueChoices, matrix \in MatrixArgChoices :
         lastCall' = Called("applyDyeCouplingToDensity",
                            <<Vec3(dr, dg, db), matrix>>,
                            ApplyDyeCouplingToDensity(Vec3(dr, dg, db), matrix))
    /\ UNCHANGED <<profile, engine, interpVars, pipeVars>>

\* linear buffers of 1..MaxPixels pixels: black, white, a bright red
LinearPixelChoices ==
    {<<0, 0, 0, U>>, <<U, U, U, U>>, <<2 * U, U \div 2, 0, U>>}

LinearBufferChoices ==
    UNION {[1..n -> LinearPixelChoices] : n \in 1..MaxPixels}

BloomOptionChoices ==
    {[strength |-> st, threshold |-> th, radius |-> rad, weights |-> ws] :
        st \in {0 - U \div 2, 0, U \div 2}, th \in {0, Fx(65, 100)},
        rad \in {0, 2 * U}, ws \in {<<>>, <<<<U>>>>}}

\* with a positive strength the dimensions are those of the buffer; a call
\* that returns early is given any dimensions
CallApplyPyramidBloom ==
    /\ lastCall = <<>>
    /\ \E buf \in LinearBufferChoices, opt \in BloomOptionChoices,
          w \in 0..MaxPixels, h \in 0..MaxPixels :
         /\ (opt.strength > 0) => (w * h = Len(buf))
         /\ lastCall' = Called("applyPyramidBloom", <<buf, w, h, opt>>,
                               ApplyPyramidBloom(buf, w, h, opt))
    /\ UNCHANGED <<profile, engine, interpVars, pipeVars>>

\* display values, the pixel coordinates GrainHashes covers, and the
\* options; size is accepted and never read
DisplayValueChoices == {0, U \div 2, U}

GrainCoordinates == 0..3

GrainOptionChoices ==
    {[iso |-> iso, strength |-> st, size |-> sz, monochrome |-> mono] :
        iso \in {100, 400}, st \in {U, 2 * U}, sz \in {U, 2 * U},
        mono \in BOOLEAN}

CallApplyPhysicalGrain ==
    /\ lastCall = <<>>
    /\ \E r \in DisplayValueChoices, g \in DisplayValueChoices,
          b \in DisplayValueChoices, x \in GrainCoordinates,
          y \in GrainCoordinates, opt \in GrainOptionChoices :
         lastCall' = Called("applyPhysicalGrain", <<r, g, b, x, y, opt>>,
                            ApplyPhysicalGrain(r, g, b, x, y, opt))
    /\ UNCHANGED <<profile, engine, interpVars, pipeVars>>

\* the caller takes the result
ReturnEffect ==
    /\ lastCall # <<>>
    /\ lastCall' = <<>>
    /\ UNCHANGED <<profile, engine, interpVars, pipeVars>>

NextEffects ==
    \/ CallApplyRedHalation
    \/ CallApplyDyeCouplingToDensity
    \/ CallApplyPyramidBloom
    \/ CallApplyPhysicalGrain
    \/ ReturnEffect

SpecEffects == InitEffects /\ [][NextEffects]_vars

-----------------------------------------------------------------------------
(* Claims *)

\* the first pair of consecutive control points with p[i].x <= x < p[i+1].x
C1_FirstBracket(x, points) ==
    LET hits == {i \in 1..(Len(points) - 1) :
                    points[i].x <= x /\ x < points[i + 1].x}
    IN  CHOOSE i \in hits : \A j \in hits : i <= j

C1_Inside(x, points) ==
    points[1].x < x /\ x < points[Len(points)].x

C1_BetweenBracket(r, x, points) ==
    LET i  == C1_FirstBracket(x, points)
        lo == Min2(points[i].y, points[i + 1].y)
        hi == Max2(points[i].y, points[i + 1].y)
    IN  r.d > 0 /\ lo * r.d <= r.n /\ r.n <= hi * r.d

\* C1 as stated: on a non-empty curve with non-decreasing x, interpolate
\* returns the first y for x <= first.x, the last y for x >= last.x, a value
\* between the y's of the first bracketing pair strictly inside, and never
\* divides by zero.
C1_AsStated ==
    (qres # <<>> /\ Len(qpoints) > 0) =>
        LET r == qres[1] IN
        /\ r.d # 0
        /\ (qx <= qpoints[1].x) => (r.n = qpoints[1].y * r.d)
        /\ (qx >= qpoints[Len(qpoints)].x) =>
               (r.n = qpoints[Len(qpoints)].y * r.d)
        /\ C1_Inside(qx, qpoints) => C1_BetweenBracket(r, qx, qpoints)

\* C1 amended: the last point's y is returned for x at or above the last
\* point's x only when x is also strictly above the first point's x (the
\* first-point test runs first, so on a curve whose points all share one x
\* the first y is returned there); the rest of C1 as stated.
C1_InterpolateClampsAndBrackets ==
    (qres # <<>> /\ Len(qpoints) > 0) =>
        LET r == qres[1] IN
        /\ r.d # 0
        /\ (qx <= qpoints[1].x) => (r.n = qpoints[1].y * r.d)
        /\ (qx >= qpoints[Len(qpoints)].x /\ qx > qpoints[1].x) =>
               (r.n = qpoints[Len(qpoints)].y * r.d)
        /\ C1_Inside(qx, qpoints) => C1_BetweenBracket(r, qx, qpoints)

\* C1's case: a call strictly inside the domain of a curve with two
\* consecutive points of equal x, returning a value strictly between two
\* different control y's
C1_Witness ==
    /\ qres # <<>>
    /\ Len(qpoints) = 4
    /\ qpoints[2].x = qpoints[3].x
    /\ C1_Inside(qx, qpoints)
    /\ qres[1].d = 2
    /\ qres[1].n % 2 = 1

White == Vec3(U, U, U)

C2_RowSumsNonZero(m) ==
    \A i \in 1..3 : m[i][1] + m[i][2] + m[i][3] # 0

\* C2 as stated: expose computes raw = M . rgb (row i of the sensitivity
\* matrix dotted with rgb, as the constructor does for scene white), so with
\* non-zero row sums white at evComp = 0 has a normalized raw value of
\* exactly 1 in every channel and a red log-exposure of 0.
C2_AsStated ==
    (Constructed /\ lastCall # <<>> /\ lastCall[1].op = "expose") =>
        LET e   == engine[2]
            rgb == lastCall[1].args[1]
            ev  == lastCall[1].args[2]
        IN  /\ RawSensor(e.sensitivityMatrix, rgb)
                 = MultiplyMatrixVector(e.sensitivityMatrix, rgb)
            /\ (rgb = White /\ ev = 0 /\ C2_RowSumsNonZero(e.sensitivityMatrix)) =>
                 /\ \A i \in 1..3 : NormalizedRaw(e, rgb)[i].n
                                      = NormalizedRaw(e, rgb)[i].d
                 /\ lastCall[1].result[1] = 0

\* C4 as stated: construction never throws; a missing sensitivity matrix
\* gives the identity, a missing dye table the Beer-Lambert scan, an empty
\* curve a completed construction.
C4_AsStated ==
    (engine # <<>>) =>
        /\ engine[1] = "ok"
        /\ (profile.physics.rgb_to_raw_matrix = <<>>) =>
               engine[2].sensitivityMatrix = IdentityMatrix3x3
        /\ (profile.physics.dye_density = <<>>) =>
               Len(engine[2].dyeDensity) = 0

\* the precedence C5 states: explicit film_type, then the process string
\* alone, then identifier substrings, then negative
C5_ClaimedFilmType(prof) ==
    IF prof.meta.film_type # "" THEN prof.meta.film_type
    ELSE LET process == ToLowerCase(prof.meta.process)
             id      == ToLowerCase(prof.id)
         IN  IF process = "e-6" THEN "reversal"
             ELSE IF process = "bw" THEN "bw_negative"
             ELSE IF Includes(id, "provia") \/ Includes(id, "velvia")
                       \/ Includes(id, "ektachrome") THEN "reversal"
             ELSE IF Includes(id, "tri-x") \/ Includes(id, "hp5")
                       \/ Includes(id, "tmax") THEN "bw_negative"
             ELSE "negative"

\* C5 as stated: the inferred film type follows that precedence; a profile
\* with process BW is bw_negative whatever its identifier contains.
C5_AsStated ==
    Constructed =>
        /\ engine[2].filmType = C5_ClaimedFilmType(profile)
        /\ (profile.meta.film_type = "" /\ profile.meta.process = "BW") =>
               engine[2].filmType = "bw_negative"

\* C6: after construction every component of baseResponse is at least 0.01;
\* if any channel of the computed zero-exposure response is below 0.01 all
\* three channels are the type default ([0.9,0.9,0.9] for reversal,
\* [0.4,0.15,0.08] otherwise), else baseResponse is the computed response.
C6_BaseResponseFloor ==
    Constructed =>
        LET e  == engine[2]
            cb == ComputedBase(e)
            low == \E i \in 1..3 : cb[i] < Fx(1, 100)
        IN  /\ \A i \in 1..3 : e.baseResponse[i] >= Fx(1, 100)
            /\ low => e.baseResponse =
                        (IF e.filmType = "reversal"
                         THEN Vec3(Fx(9, 10), Fx(9, 10), Fx(9, 10))
                         ELSE Vec3(Fx(4, 10), Fx(15, 100), Fx(8, 100)))
            /\ ~low => e.baseResponse = cb

\* C6's case: a negative film whose computed response is below the floor in
\* the blue channel only, and all three channels took the default
C6_Witness ==
    /\ Constructed
    /\ engine[2].filmType = "negative"
    /\ ComputedBase(engine[2])[1] >= Fx(1, 100)
    /\ ComputedBase(engine[2])[3] < Fx(1, 100)
    /\ engine[2].baseResponse = Vec3(Fx(4, 10), Fx(15, 100), Fx(8, 100))

\* C6's other branch: a computed response that passed the floor and was kept
C6_KeptComputed ==
    /\ Constructed
    /\ \A i \in 1..3 : ComputedBase(engine[2])[i] >= Fx(1, 100)
    /\ engine[2].baseResponse # Vec3(U, U, U)

\* C3 as stated: a profile whose dye-coupling matrix has other than 9
\* elements is rejected when the engine is constructed, before any pixel is
\* processed, and no pass ever applies a matrix of other than 9 elements to
\* a density triple.
C3_AsStated ==
    (pc \notin {"idle", "start"}) =>
        /\ (profile.physics.dye_coupling_matrix # <<>>
              /\ Len(profile.physics.dye_coupling_matrix[1]) # 9) => pc = "failed"
        /\ \A k \in 1..Len(trace) :
              ("dye_coupling" \in trace[k].applied) => Len(trace[k].matrix) = 9

\* C7: in pass 1 and in pass 2 the value taken from a pixel's scan is the
\* scan itself when the engine's film type is reversal and engine.invert of
\* the scan otherwise (negative, bw_negative); invert runs if and only if
\* the film type is not reversal.
C7_InvertIffNotReversal ==
    \A k \in 1..Len(trace) :
        (trace[k].stage \in {"pass1", "pass2"}) =>
            LET ev == trace[k]
                e  == engine[2]
            IN  /\ ev.scanned = ProcessPixel(e, SceneLinear(pixelData[ev.pixel + 1]),
                                             locals.totalExposure)
                /\ ("invert" \in ev.applied) <=> (e.filmType # "reversal")
                /\ (e.filmType = "reversal") => ev.used = ev.scanned
                /\ (e.filmType \in {"negative", "bw_negative"}) =>
                       ev.used = Invert(e, ev.scanned, U)

\* C7's case: a reversal run whose two pixels went through both passes
\* without inversion, the scanned transmittance used as it is
C7_Witness ==
    /\ pc = "pass3"
    /\ engine[2].filmType = "reversal"
    /\ Len(pixelData) = 2
    /\ \A px \in {0, 1}, st \in {"pass1", "pass2"} :
          \E k \in 1..Len(trace) :
              /\ trace[k].stage = st
              /\ trace[k].pixel = px
              /\ "invert" \notin trace[k].applied
              /\ trace[k].used = trace[k].scanned
              /\ trace[k].used # Invert(engine[2], trace[k].scanned, U)

\* C8 as stated: for a bw_negative film no pass applies dye coupling,
\* halation or saturation boosting to any pixel, and pass 3 applies grain in
\* monochrome mode.
C8_AsStated ==
    (pc \notin {"idle", "start", "failed"} /\ locals.isBW) =>
        \A k \in 1..Len(trace) :
            /\ trace[k].applied \cap {"dye_coupling", "halation", "saturation"} = {}
            /\ (trace[k].stage = "pass3") => "grain_mono" \in trace[k].applied

C9_Rank(stage) ==
    CASE stage = "pass1"  -> 1
      [] stage = "derive" -> 2
      [] stage = "pass2"  -> 3
      [] stage = "bloom"  -> 4
      [] stage = "pass3"  -> 5

\* the pixels a stage has handled before position k of the history
C9_PixelsBefore(stage, k) ==
    {trace[j].pixel : j \in {n \in 1..(k - 1) : trace[n].stage = stage}}

C9_AllPixels == 0..(Len(pixelData) - 1)

\* C9: the stages of a run happen in the order pass 1, derivation, pass 2,
\* bloom, pass 3; derivation happens after every pixel's pass-1 statistic
\* was collected, the first pass-2 pixel after derivation, bloom after every
\* pixel of the linear buffer was written, the first pass-3 pixel after
\* bloom; and the derived parameters exist only once all statistics do.
C9_StagesInOrder ==
    /\ \A k \in 1..Len(trace) :
          LET ev == trace[k] IN
          /\ (k > 1) => C9_Rank(trace[k - 1].stage) <= C9_Rank(ev.stage)
          /\ (ev.stage = "derive") => C9_PixelsBefore("pass1", k) = C9_AllPixels
          /\ (ev.stage = "pass2") => \E j \in 1..(k - 1) : trace[j].stage = "derive"
          /\ (ev.stage = "bloom") => C9_PixelsBefore("pass2", k) = C9_AllPixels
          /\ (ev.stage = "pass3") => \E j \in 1..(k - 1) : trace[j].stage = "bloom"
    /\ (derived # <<>>) =>
          /\ stats.pixelCount = Len(pixelData)
          /\ Len(stats.densitiesR) = Len(pixelData)
    /\ (pc \in {"pass3", "done"}) =>
          \A k \in 1..Len(pixelData) : linearBuffer[k][4] = U

\* C9's case: a finished run over two pixels, all eight stage steps taken
C9_Witness ==
    /\ pc = "done"
    /\ Len(pixelData) = 2
    /\ Len(trace) = 8
    /\ trace[3].stage = "derive"
    /\ trace[6].stage = "bloom"
    /\ trace[8].stage = "pass3"

\* what C10 states for one channel
C10_Channel(range, sorted, filmType) ==
    IF filmType = "reversal"
    THEN range.min = 0 /\ range.max = U /\ range.scale.n = range.scale.d
    ELSE /\ range.min = sorted[(Len(sorted) * 5) \div 1000 + 1]
         /\ range.max = AddN(range.min, Fx(27, 10))
         /\ range.scale.n * 27 = range.scale.d * 10

\* C10 as stated: with preserve-exposure on, a reversal film gets min 0,
\* max 1, scale 1 in every channel; a negative or bw_negative film gets
\* min = the channel's sorted pass-1 value at index floor(n * 0.005),
\* max = min + 2.7 and scale = 1 / 2.7, for every pixel count n >= 1.
C10_AsStated ==
    (derived # <<>> /\ options.preserveExposure) =>
        /\ C10_Channel(derived[1].rangeR, stats.densitiesR, locals.filmType)
        /\ C10_Channel(derived[1].rangeG, stats.densitiesG, locals.filmType)
        /\ C10_Channel(derived[1].rangeB, stats.densitiesB, locals.filmType)

\* what C11 states for one channel: the low index is 0 (linear) or
\* floor(n * 0.005), the high index n - 1 (linear) or floor(n * 0.995) - 1,
\* taken as 0 when the collection is too short for it
C11_Channel(range, sorted, useLinear) ==
    LET n       == Len(sorted)
        lowIdx  == IF useLinear THEN 0 ELSE (n * 5) \div 1000
        highIdx == IF useLinear THEN n - 1
                   ELSE Max2(0, (n * 995) \div 1000 - 1)
        span    == SubN(sorted[highIdx + 1], sorted[lowIdx + 1])
    IN  /\ range.min = sorted[lowIdx + 1]
        /\ range.max = sorted[highIdx + 1]
        /\ IF span # NaN /\ span * 1000 > U
           THEN range.scale.n * span = range.scale.d * U
           ELSE range.scale.n = range.scale.d

\* C11 as stated: with preserve-exposure off, every channel's min is its
\* sorted pass-1 value at the low percentile, its max the value at the high
\* percentile ([0, 1.0] for linear tone mode, [0.005, 0.995] otherwise),
\* and scale = 1 / (max - min) when max - min > 0.001 and 1 otherwise.
C11_AsStated ==
    (derived # <<>> /\ ~options.preserveExposure) =>
        /\ C11_Channel(derived[1].rangeR, stats.densitiesR, locals.useLinear)
        /\ C11_Channel(derived[1].rangeG, stats.densitiesG, locals.useLinear)
        /\ C11_Channel(derived[1].rangeB, stats.densitiesB, locals.useLinear)

RECURSIVE C12_SeqSum(_)
C12_SeqSum(seq) ==
    IF seq = <<>> THEN 0
    ELSE DoubleAdd(C12_SeqSum(SubSeq(seq, 1, Len(seq) - 1)), seq[Len(seq)])

\* the saturation of every pixel's scene-linear input, in pixel order
C12_InputSats ==
    [k \in 1..Len(pixelData) |->
        LET rgb == SceneLinear(pixelData[k])
        IN  GetSaturation(rgb[1], rgb[2], rgb[3])]

\* the saturation of every pixel's post-invert value in pass 1
C12_AfterInvertSats ==
    [k \in 1..Len(pixelData) |->
        LET ev == trace[CHOOSE j \in 1..Len(trace) :
                          trace[j].stage = "pass1" /\ trace[j].pixel = k - 1]
        IN  GetSaturation(ev.used[1], ev.used[2], ev.used[3])]

C12_AvgInput == C12_SeqSum(C12_InputSats) \div Len(pixelData)
C12_AvgAfterInvert == C12_SeqSum(C12_AfterInvertSats) \div Len(pixelData)

\* the ratio of the two averages, 1 when the second is not above 0.001
C12_Ratio ==
    IF C12_AvgAfterInvert * 1000 > U
    THEN Div(C12_AvgInput, C12_AvgAfterInvert)
    ELSE U

\* C12: once the pass-1 statistics of an image of at least one pixel are
\* derived, the saturation-restoration factor is 1.5 times the ratio of the
\* average input saturation to the average post-invert saturation (ratio 1
\* when the latter is not above 0.001), clamped to [1.0, 5.0]; it always
\* lies in [1.0, 5.0].
C12_SaturationFactorClamped ==
    (derived # <<>>) =>
        LET f == derived[1].SATURATION_RESTORE_FACTOR
            compensated == (C12_Ratio * 3) \div 2
        IN  /\ f >= U /\ f <= 5 * U
            /\ f = IF compensated < U THEN U
                   ELSE IF compensated > 5 * U THEN 5 * U
                   ELSE compensated

\* C12's case: the two averages give a compensated ratio above 5, and the
\* derived factor is the upper bound
C12_Witness ==
    /\ derived # <<>>
    /\ C12_AvgAfterInvert * 1000 > U
    /\ (C12_Ratio * 3) \div 2 > 5 * U
    /\ derived[1].SATURATION_RESTORE_FACTOR = 5 * U

\* C13 as stated: in pass 3 the display value of each channel of each pixel
\* is applyToneMapping of the bloomed linear value under the profile's tone
\* mode (aces; reinhard with the profile's white point; clamp-then-gamma
\* for simple, linear and no mode).
C13_AsStated ==
    \A k \in 1..Len(trace) :
        (trace[k].stage = "pass3") =>
            LET ev      == trace[k]
                bloomed == bloomedBuffer[ev.pixel + 1]
            IN  \A c \in 1..3 :
                    ev.scanned[c] =
                        ApplyToneMapping(bloomed[c], ToneModeOf(profile),
                                         profile.rendering.white_point)

\* C14 as stated: for every (r, g, b) and strength >= 0, applyRedHalation
\* returns green and blue equal to the inputs, a red not smaller than the
\* input red, the same result for every radius, and the input triple itself
\* when the mean of (r, g, b) does not exceed the threshold.
C14_AsStated ==
    (lastCall # <<>> /\ lastCall[1].op = "applyRedHalation") =>
        LET r   == lastCall[1].args[1]
            g   == lastCall[1].args[2]
            b   == lastCall[1].args[3]
            opt == lastCall[1].args[4]
            out == lastCall[1].result
            threshold == IF opt.threshold = <<>> THEN Fx(6, 10)
                         ELSE opt.threshold[1]
        IN  /\ out[2] = g
            /\ out[3] = b
            /\ out[1] >= r
            /\ \A o \in HalationOptionChoices :
                  (o.strength = opt.strength /\ o.threshold = opt.threshold) =>
                      ApplyRedHalation(r, g, b, o) = out
            /\ (r + g + b <= 3 * threshold) => out = Vec3(r, g, b)

\* C15: applyDyeCouplingToDensity(d, IDENTITY_MATRIX) returns d for every
\* density triple d, so a caller that skips the call for the identity
\* matrix uses the same values as one that makes it.
C15_IdentityIsNoOp ==
    (lastCall # <<>> /\ lastCall[1].op = "applyDyeCouplingToDensity"
       /\ lastCall[1].args[2] = IDENTITY_MATRIX.elems) =>
        lastCall[1].result = lastCall[1].args[1]

\* C15's case: the identity matrix applied to three different densities,
\* one of them negative
C15_Witness ==
    /\ lastCall # <<>>
    /\ lastCall[1].op = "applyDyeCouplingToDensity"
    /\ lastCall[1].args[2] = IDENTITY_MATRIX.elems
    /\ lastCall[1].args[1] = Vec3(Fx(24, 10), 0 - U \div 4, Fx(37, 100))
    /\ lastCall[1].result = Vec3(Fx(24, 10), 0 - U \div 4, Fx(37, 100))

\* C16: applyPyramidBloom with strength <= 0 returns its input buffer with
\* every element unchanged, whatever the width, height, threshold, radius
\* and weights; no pyramid level enters the result.
C16_BloomOffReturnsInput ==
    (lastCall # <<>> /\ lastCall[1].op = "applyPyramidBloom"
       /\ lastCall[1].args[4].strength <= 0) =>
        lastCall[1].result = lastCall[1].args[1]

\* C16's case: a negative strength on a buffer with a pixel above the
\* threshold, with dimensions that are not the buffer's
C16_Witness ==
    /\ lastCall # <<>>
    /\ lastCall[1].op = "applyPyramidBloom"
    /\ lastCall[1].args[4].strength < 0
    /\ lastCall[1].args[4].threshold = 0
    /\ lastCall[1].args[1] = <<<<U, U, U, U>>, <<2 * U, U \div 2, 0, U>>>>
    /\ lastCall[1].args[2] = 0
    /\ lastCall[1].args[3] = 2
    /\ lastCall[1].result = lastCall[1].args[1]

\* C17: with no dye-density table in the profile, scan(density) is
\* 10^-density channel by channel: channel i of the result is the one
\* function 10^-x of channel i of the argument, whatever the other two
\* channels and whatever the engine's film type.
C17_ScanBeerLambert ==
    (lastCall # <<>> /\ lastCall[1].op = "scan"
       /\ Len(profile.physics.dye_density) = 0) =>
        \A i \in 1..3 :
            lastCall[1].result[i] = Pow10(0 - lastCall[1].args[1][i])

\* C17's case: a reversal engine without a dye table scans three different
\* densities 1, 0.5, 0 into 0.1, 10^-0.5 and 1
C17_Witness ==
    /\ lastCall # <<>>
    /\ lastCall[1].op = "scan"
    /\ Len(profile.physics.dye_density) = 0
    /\ engine[2].filmType = "reversal"
    /\ lastCall[1].args[1] = Vec3(U, U \div 2, 0)
    /\ lastCall[1].result[1] = Pow10(0 - U)
    /\ lastCall[1].result[2] = Pow10(0 - U \div 2)
    /\ lastCall[1].result[3] = U
    /\ lastCall[1].result[1] < lastCall[1].result[2]
    /\ lastCall[1].result[2] < lastCall[1].result[3]

\* C18: for every pixel coordinate, ISO, strength, size and mode,
\* applyPhysicalGrain returns (r, g, b) unchanged when r, g, b are in [0, 1]
\* and their Rec.709 luminance is exactly 0 or exactly 1; the midtone
\* weight is 0 at luminance 0 and 1, and nowhere above its value 1 at
\* luminance 0.5.
C18_NoGrainAtBlackAndWhite ==
    (lastCall # <<>> /\ lastCall[1].op = "applyPhysicalGrain") =>
        LET r   == lastCall[1].args[1]
            g   == lastCall[1].args[2]
            b   == lastCall[1].args[3]
            lum == Luminance709(r, g, b)
        IN  /\ (lum \in {0, U}) => lastCall[1].result = Vec3(r, g, b)
            /\ MidtoneWeight(0) = 0
            /\ MidtoneWeight(U) = 0
            /\ MidtoneWeight(U \div 2) = U
            /\ MidtoneWeight(lum) <= MidtoneWeight(U \div 2)

\* C18's case: white at a pixel whose noise is not zero, colour grain at
\* ISO 400 and strength 2, comes back as white
C18_Witness ==
    /\ lastCall # <<>>
    /\ lastCall[1].op = "applyPhysicalGrain"
    /\ lastCall[1].args[1] = U /\ lastCall[1].args[2] = U /\ lastCall[1].args[3] = U
    /\ lastCall[1].args[4] = 1 /\ lastCall[1].args[5] = 2
    /\ lastCall[1].args[6] =
          [iso |-> 400, strength |-> 2 * U, size |-> 2 * U, monochrome |-> FALSE]
    /\ lastCall[1].result = Vec3(U, U, U)
    /\ ApplyPhysicalGrain(U \div 2, U \div 2, U \div 2, 1, 2, lastCall[1].args[6])
          # Vec3(U \div 2, U \div 2, U \div 2)

\* C19: the grain the pipeline applies is deterministic: the grained triple
\* of every pass-3 pixel is the one applyPhysicalGrain gives for that
\* pixel's values, coordinates and options whatever the random source
\* draws, so equal arguments give equal triples.
C19_GrainedAt(e, random) ==
    Pass3(locals, derived[1], profile, bloomedBuffer[e.pixel + 1],
          e.pixel % width, e.pixel \div width, random).final

C19_GrainIsDeterministic ==
    \A i \in 1..Len(trace) :
        (trace[i].stage = "pass3") =>
            \A random \in RandomChoices :
                trace[i].used = C19_GrainedAt(trace[i], random)

\* C19's case: a colour film's midtone pixel was grained in pass 3, and the
\* grain moved it
C19_Witness ==
    \E i \in 1..Len(trace) :
        /\ trace[i].stage = "pass3"
        /\ "grain_color" \in trace[i].applied
        /\ \A c \in 1..3 : trace[i].used[c] # NaN
        /\ \E c \in 1..3 : trace[i].used[c] \notin {0, U}
        /\ \A random \in RandomChoices :
              trace[i].used = C19_GrainedAt(trace[i], random)

\* C20: once the constructor has returned, no call of expose, develop,
\* scan, invert, processPixel or getFilmType changes the calibration state
\* (sensitivityOffsets, normalizationScale, dMin, filmType, baseResponse)
\* or the profile, and the result of each call is the method's value for
\* its arguments and that fixed state.
C20_ResultOf(e, call) ==
    CASE call.op = "expose"       -> Expose(e, call.args[1], call.args[2])
      [] call.op = "develop"      -> Develop(e, call.args[1])
      [] call.op = "scan"         -> Scan(e, call.args[1])
      [] call.op = "invert"       -> Invert(e, call.args[1], U)
      [] call.op = "processPixel" -> ProcessPixel(e, call.args[1], call.args[2])
      [] call.op = "getFilmType"  -> e.filmType

C20_CallsLeaveEngineAlone ==
    [][Constructed =>
          /\ engine' = engine
          /\ profile' = profile
          /\ engine[2] = NewEngine(profile)
          /\ (lastCall' # <<>>) =>
                lastCall'[1].result = C20_ResultOf(NewEngine(profile), lastCall'[1])]_vars

\* C20's case: a call of processPixel has returned its value on an engine
\* that still holds the calibration of its construction
C20_Witness ==
    /\ Constructed
    /\ lastCall # <<>>
    /\ lastCall[1].op = "processPixel"
    /\ engine[2] = NewEngine(profile)
    /\ engine[2].dMin # Vec3(0, 0, 0)
    /\ lastCall[1].result =
          Scan(engine[2],
               Develop(engine[2],
                       Expose(engine[2], lastCall[1].args[1], lastCall[1].args[2])))

\* the accumulators and collections of pass 1 after the first k pixels,
\* visited in the order of the buffer
RECURSIVE C21_InBufferOrder(_)
C21_InBufferOrder(k) ==
    IF k = 0 THEN EmptyStats
    ELSE Accumulate(C21_InBufferOrder(k - 1),
                    Pass1(engine[2], locals, pixelData[k]))

C21_SameAs(dv) ==
    /\ stats.densitiesR = dv.sortedR
    /\ stats.densitiesG = dv.sortedG
    /\ stats.densitiesB = dv.sortedB
    /\ derived[1].rangeR = dv.rangeR
    /\ derived[1].rangeG = dv.rangeG
    /\ derived[1].rangeB = dv.rangeB
    /\ derived[1].SATURATION_RESTORE_FACTOR = dv.SATURATION_RESTORE_FACTOR

C22_OutputIsRGBA8 ==
    (pc = "done") =>
        /\ Len(outputBuffer) = width * (Len(pixelData) \div width)
        /\ Len(outputBuffer) = Len(pixelData)
        /\ \A k \in 1..Len(outputBuffer) :
              /\ Len(outputBuffer[k]) = 4
              /\ \A c \in 1..4 : outputBuffer[k][c] \in 0..255
              /\ outputBuffer[k][4] = 255
              /\ \E random \in RandomChoices :
                    outputBuffer[k] =
                        Pass3(locals, derived[1], profile, bloomedBuffer[k],
                              (k - 1) % width, (k - 1) \div width, random).output

\* C22's case: a finished run on two pixels, the first transparent, whose
\* output pixels differ and are both opaque
C22_Witness ==
    /\ pc = "done"
    /\ Len(pixelData) = 2
    /\ pixelData[1][4] = 0
    /\ pixelData[2][4] = U \div 2
    /\ Len(outputBuffer) = 2
    /\ outputBuffer[1] # outputBuffer[2]
    /\ outputBuffer[1][4] = 255
    /\ outputBuffer[2][4] = 255

\* the sum of log10(max(0.0001, lux)) over the pixels 0, 100, 200, ...
\* below n
RECURSIVE C23_SampledLogSum(_, _)
C23_SampledLogSum(data, n) ==
    IF n <= 0 THEN 0
    ELSE LET last == ((n - 1) \div 100) * 100
         IN  C23_SampledLogSum(data, last) + LogLux(data[last + 1])

\* log2(0.25 / logAverageLuminance), 0 when the log-average is not above
\* 0.0001
C23_Bias(data) ==
    LET samples == (Len(data) + 99) \div 100
        logAvg  == C23_SampledLogSum(data, Len(data)) \div samples
    IN  IF logAvg > 0 - 4 * U
        THEN Div(Log10(U \div 4) - logAvg, Log10Of2)
        ELSE 0

C23_TotalExposure ==
    options.exposure + (IF options.useAutoExposure THEN C23_Bias(pixelData) ELSE 0)

\* C23: the exposure compensation passed to the engine for every pixel in
\* pass 1 and in pass 2 is the same value userEV + autoBias; autoBias is 0
\* when auto-exposure is off or the sampled log-average luminance is not
\* above 0.0001, and log2(0.25 / logAverageLuminance) computed from every
\* 100th pixel otherwise.
C23_AsStated ==
    (locals # <<>>) =>
        /\ locals.totalExposure = C23_TotalExposure
        /\ \A j \in 1..Len(trace) :
              LET rgb == SceneLinear(pixelData[trace[j].pixel + 1])
              IN  /\ (trace[j].stage = "pass1") =>
                        trace[j].scanned =
                            Scan(engine[2],
                                 Develop(engine[2],
                                         Expose(engine[2], rgb, C23_TotalExposure)))
                  /\ (trace[j].stage = "pass2") =>
                        trace[j].scanned =
                            ProcessPixel(engine[2], rgb, C23_TotalExposure)

\* the H&D curve of channel c
C24_Curve(c) ==
    IF c = 1 THEN profile.sensitometry.red
    ELSE IF c = 2 THEN profile.sensitometry.green
    ELSE profile.sensitometry.blue

\* the density change of channel c's curve over one stop from the pixel's
\* log-exposure at 0 EV
C24_CurveChange(c) ==
    LET operatingPoint == Expose(engine[2], lastCall[1].args[1], 0)[c]
    IN  Interpolate(operatingPoint + Log10Of2, C24_Curve(c))
          - Interpolate(operatingPoint, C24_Curve(c))

C24_NonDecreasing(points) ==
    \A i \in 1..(Len(points) - 1) :
        points[i].x <= points[i + 1].x /\ points[i].y <= points[i + 1].y

\* the same difference on an engine whose base response is b
C24_DifferenceWithBase(c, b) ==
    LET e   == [engine[2] EXCEPT !.baseResponse = b]
        rgb == lastCall[1].args[1]
    IN  Invert(e, ProcessPixel(e, rgb, U), U)[c]
          - Invert(e, ProcessPixel(e, rgb, 0), U)[c]

\* the rounding of the scan and of its inversion, in density
C24_Rounding == U \div 256

C24_DriverOnNegative ==
    /\ Constructed
    /\ lastCall # <<>>
    /\ lastCall[1].op = "driver"
    /\ engine[2].filmType = "negative"
    /\ engine[2].dyeDensity = <<>>

\* C24: for a negative-type profile without a dye table and a fixed pixel,
\* invert(processPixel(rgb, 1)) - invert(processPixel(rgb, 0)) is, in every
\* channel, the density change of that channel's H&D curve over one stop
\* from the pixel's operating point (up to the rounding of the scan); it
\* does not depend on baseResponse and is not negative where the curve is
\* non-decreasing.
C24_OneStopDensityDelta ==
    C24_DriverOnNegative =>
        \A c \in 1..3 :
            LET delta == lastCall[1].result.positive1[c]
                           - lastCall[1].result.positive0[c]
            IN  /\ Abs(delta - C24_CurveChange(c)) <= C24_Rounding
                /\ \A b \in {DefaultBase("negative"), DefaultBase("reversal")} :
                      C24_DifferenceWithBase(c, b) = delta
                /\ C24_NonDecreasing(C24_Curve(c)) => delta >= 0

\* C24's case: mid grey on a negative film whose three curves rise at the
\* operating point, so that one stop adds at least 0.1 density in every
\* channel
C24_Witness ==
    /\ C24_DriverOnNegative
    /\ lastCall[1].args[1] = Vec3(Fx(18, 100), Fx(18, 100), Fx(18, 100))
    /\ engine[2].baseResponse # DefaultBase("negative")
    /\ \A c \in 1..3 :
          /\ C24_CurveChange(c) >= Fx(1, 10)
          /\ lastCall[1].result.positive1[c] - lastCall[1].result.positive0[c]
                >= Fx(1, 10)

\* the density above dMin at log-exposure x
C25_AboveDMin(points, x) == Interpolate(x, points) - GetMinY(points)

C25_Rising(points) ==
    \A i \in 1..(Len(points) - 1) :
        points[i].x < points[i + 1].x /\ points[i].y <= points[i + 1].y

C25_Falling(points) ==
    \A i \in 1..(Len(points) - 1) :
        points[i].x < points[i + 1].x /\ points[i].y >= points[i + 1].y

\* the curve is monotone and reaches 1.0 above dMin inside [-4, 4]
C25_CrossesTarget(points) ==
    /\ Len(points) >= 1
    /\ \/ /\ C25_Rising(points)
          /\ C25_AboveDMin(points, (0 - 4) * U) <= U
          /\ C25_AboveDMin(points, 4 * U) >= U
       \/ /\ C25_Falling(points)
          /\ C25_AboveDMin(points, (0 - 4) * U) >= U
          /\ C25_AboveDMin(points, 4 * U) <= U

\* 8 / 2^15 in log-exposure
C25_Tolerance == (8 * U) \div 2^15

\* a crossing of the target lies within the tolerance of mid
C25_NearCrossing(points, mid) ==
    LET before == C25_AboveDMin(points, mid - C25_Tolerance)
        after  == C25_AboveDMin(points, mid + C25_Tolerance)
    IN  /\ mid >= (0 - 4) * U
        /\ mid <= 4 * U
        /\ \/ (before <= U /\ U <= after)
           \/ (before >= U /\ U >= after)

C25_Curves ==
    <<profile.sensitometry.red, profile.sensitometry.green,
      profile.sensitometry.blue>>

\* C25: for each channel curve that is monotone above dMin and crosses 1.0
\* inside [-4, 4], the constructor's bisection returns a value in [-4, 4]
\* within 8/2^15 of the crossing; the stored sensitivity offsets are
\* [0, midG - midR, midB - midR], so the red offset is 0 and three identical
\* curves give all-zero offsets.
C25_BisectionAndOffsets ==
    Constructed =>
        /\ \A c \in 1..3 :
              C25_CrossesTarget(C25_Curves[c]) =>
                  C25_NearCrossing(C25_Curves[c],
                                   FindMidpointShift(C25_Curves[c], U))
        /\ engine[2].sensitivityOffsets[1] = 0
        /\ engine[2].sensitivityOffsets[2] =
              FindMidpointShift(C25_Curves[2], U) - FindMidpointShift(C25_Curves[1], U)
        /\ engine[2].sensitivityOffsets[3] =
              FindMidpointShift(C25_Curves[3], U) - FindMidpointShift(C25_Curves[1], U)
        /\ (C25_Curves[1] = C25_Curves[2] /\ C25_Curves[2] = C25_Curves[3]) =>
              engine[2].sensitivityOffsets = Vec3(0, 0, 0)

\* C25's case: an engine built on a rising red curve and a different rising
\* green curve, both crossing the target, with a green offset that is not 0
C25_Witness ==
    /\ Constructed
    /\ C25_Curves[1] # C25_Curves[2]
    /\ C25_Rising(C25_Curves[1]) /\ C25_CrossesTarget(C25_Curves[1])
    /\ C25_Rising(C25_Curves[2]) /\ C25_CrossesTarget(C25_Curves[2])
    /\ C25_NearCrossing(C25_Curves[2], FindMidpointShift(C25_Curves[2], U))
    /\ engine[2].sensitivityOffsets[1] = 0
    /\ engine[2].sensitivityOffsets[2] # 0

\* C26: for every pixel and every film type, the per-channel value that
\* pass 1 inserts into the statistics collections equals the value that
\* pass 2 computes for the same pixel immediately before normalization.
C26_AsStated ==
    \A j \in 1..Len(trace) :
        (trace[j].stage = "pass2") =>
            Pass1(engine[2], locals, pixelData[trace[j].pixel + 1]).finalDensity
                = Pass2(engine[2], locals, derived[1],
                        pixelData[trace[j].pixel + 1]).halated

\* the pyramid applyPyramidBloom builds for the call in lastCall
C27_Levels ==
    LET linearData == lastCall[1].args[1]
        opt        == lastCall[1].args[4]
    IN  BuildPyramid([data |-> [k \in 1..Len(linearData) |->
                                  ExtractHighlight(linearData[k], opt.threshold)],
                      w |-> lastCall[1].args[2], h |-> lastCall[1].args[3]],
                     0, opt.radius, Len(DefaultBloomWeights))

\* C27: for every image with width >= 1 and height >= 1, strength > 0 and
\* the default six weights, every pyramid level has at least one pixel and
\* every read of the composite lies inside its level, so the composite adds
\* only defined values and the output's alpha equals the input's.
C27_AsStated ==
    (/\ lastCall # <<>>
     /\ lastCall[1].op = "applyPyramidBloom"
     /\ lastCall[1].args[4].strength > 0
     /\ lastCall[1].args[4].weights = <<>>
     /\ lastCall[1].args[2] >= 1
     /\ lastCall[1].args[3] >= 1) =>
        /\ \A l \in 1..Len(C27_Levels) :
              C27_Levels[l].w * C27_Levels[l].h >= 1
        /\ \A k \in 1..Len(lastCall[1].result) :
              /\ \A c \in 1..3 : lastCall[1].result[k][c] # NaN
              /\ lastCall[1].result[k][4] = lastCall[1].args[1][k][4]

\* C28: for a bw_negative film every pixel written to the 8-bit output has
\* equal red, green and blue components: the triple after grain is already
\* grey, and one dither value is shared by the three channels.
C28_BWOutputIsGrey ==
    (pc \in {"pass3", "done"} /\ locals.isBW) =>
        \A k \in 1..(IF pc = "done" THEN Len(outputBuffer) ELSE pixelIdx) :
            /\ outputBuffer[k][1] = outputBuffer[k][2]
            /\ outputBuffer[k][2] = outputBuffer[k][3]
            /\ \A random \in RandomChoices :
                  \E p \in {Pass3(locals, derived[1], profile, bloomedBuffer[k],
                                  (k - 1) % width, (k - 1) \div width, random)} :
                      /\ p.final[1] = p.final[2]
                      /\ p.final[2] = p.final[3]
                      /\ p.output[1] = p.output[2]
                      /\ p.output[2] = p.output[3]

\* C28's case: a finished black-and-white run with a pixel whose display
\* triple had unequal channels and whose output is a grey strictly between
\* black and white
C28_Witness ==
    /\ pc = "done"
    /\ locals.isBW
    /\ \E k \in 1..Len(outputBuffer) :
          /\ outputBuffer[k][1] \in 1..254
          /\ outputBuffer[k][1] = outputBuffer[k][2]
          /\ outputBuffer[k][2] = outputBuffer[k][3]
          /\ \E p \in {Pass3(locals, derived[1], profile, bloomedBuffer[k],
                             (k - 1) % width, (k - 1) \div width, 0)} :
                /\ p.display[1] # NaN
                /\ p.display[2] # NaN
                /\ p.display[1] # p.display[2]

\* the computed zero-exposure response passed the 0.01 floor, so the
\* constructor kept it
C29_BasePassedFloor ==
    /\ Constructed
    /\ \A c \in 1..3 : ComputedBase(engine[2])[c] >= MIN_VALID_BASE

\* exposure compensations from the calibration's -20 EV to beyond the
\* largest automatic bias
C29_ExposureCompensations ==
    {(0 - 20) * U, (0 - 2) * U, 0 - U \div 2, 0, U \div 2, U, 12 * U}

\* C29: whenever the computed zero-exposure response passed the 0.01 floor,
\* invert(processPixel([0,0,0], ev)) is zero density in every channel for
\* every exposure compensation ev: the all-zero input reaches the same
\* clamped log-exposure as the calibration input, and the scanned value
\* equals baseResponse.
C29_BaseLockedInversion ==
    (/\ C29_BasePassedFloor
     /\ lastCall # <<>>
     /\ lastCall[1].op = "driver"
     /\ lastCall[1].args[1] = Vec3(0, 0, 0)) =>
        /\ lastCall[1].result.positive0 = Vec3(0, 0, 0)
        /\ lastCall[1].result.positive1 = Vec3(0, 0, 0)
        /\ \A ev \in C29_ExposureCompensations :
              /\ Expose(engine[2], Vec3(0, 0, 0), ev)
                    = Expose(engine[2], Vec3(0, 0, 0), (0 - 20) * U)
              /\ ProcessPixel(engine[2], Vec3(0, 0, 0), ev)
                    = engine[2].baseResponse
              /\ Invert(engine[2], ProcessPixel(engine[2], Vec3(0, 0, 0), ev), U)
                    = Vec3(0, 0, 0)

\* C29's case: the driver ran on black with an engine whose computed base
\* was kept, is not the clear base (1, 1, 1) and is not the default
C29_Witness ==
    /\ C29_BasePassedFloor
    /\ lastCall # <<>>
    /\ lastCall[1].op = "driver"
    /\ lastCall[1].args[1] = Vec3(0, 0, 0)
    /\ engine[2].baseResponse = ComputedBase(engine[2])
    /\ engine[2].baseResponse # Vec3(U, U, U)
    /\ engine[2].baseResponse # DefaultBase(engine[2].filmType)
    /\ lastCall[1].result.positive1 = Vec3(0, 0, 0)

\* the high and low indices of the adaptive normalization for n values
C30_IdxHigh(n) ==
    (IF locals.useLinear THEN n ELSE FloorHighPercentile(n)) - 1

C30_IdxLow(n) == IF locals.useLinear THEN 0 ELSE FloorLowPercentile(n)

\* one channel: the range's ends are the sorted values at the two indices
C30_Channel(range, sorted) ==
    /\ range.min = sorted[C30_IdxLow(Len(sorted)) + 1]
    /\ range.max = sorted[C30_IdxHigh(Len(sorted)) + 1]
    /\ range.min <= range.max
    /\ range.scale.n * range.scale.d > 0

\* C30: in adaptive (non-preserve) normalization, for every pixel count
\* n >= 1 and both percentile settings, the low and high indices are valid
\* positions of the sorted collection with low <= high, so each channel's
\* min and max are collected values with min <= max, and the scale is
\* strictly positive and finite.
C30_AsStated ==
    (/\ derived # <<>>
     /\ ~options.preserveExposure
     /\ Len(stats.densitiesR) >= 1) =>
        /\ C30_IdxLow(Len(stats.densitiesR)) \in 0..(Len(stats.densitiesR) - 1)
        /\ C30_IdxHigh(Len(stats.densitiesR)) \in 0..(Len(stats.densitiesR) - 1)
        /\ C30_IdxLow(Len(stats.densitiesR)) <= C30_IdxHigh(Len(stats.densitiesR))
        /\ C30_Channel(derived[1].rangeR, stats.densitiesR)
        /\ C30_Channel(derived[1].rangeG, stats.densitiesG)
        /\ C30_Channel(derived[1].rangeB, stats.densitiesB)

====
